---- MODULE Spec2Model ----
(***************************************************************************)
(* Rendering passes of the rg3d engine: the HDR renderer (luminance chain, *)
(* eye adaptation, tone mapping), the point-light shadow renderer and the  *)
(* UI renderer.  Each pass is a sequential program; its position is kept   *)
(* in a stage/pc variable and every device draw it issues is appended to   *)
(* a per-call log of draw records.                                         *)
(***************************************************************************)
EXTENDS Integers, Sequences, FiniteSets, TLC

VARIABLES
    \* ---- HighDynamicRangeRenderer (src/src/renderer/hdr/mod.rs)
    hdr_stage,          \* stage render() is about to run, "Idle" between calls
    hdr_in,             \* arguments of the current render() call
    hdr_frame,          \* number of render() calls started so far
    frame_luminance,    \* LumBuffer: [size, value, frame]
    downscale_chain,    \* 6 LumBuffers: [size, value, frame]
    down_i,             \* loop position of calculate_avg_frame_luminance
    prev_luminance,     \* local of calculate_avg_frame_luminance
    adaptation_chain,   \* [lum_framebuffers: 2 LumBuffers, swap: BOOLEAN]
    hdr_adapt,          \* what the last adaptation() bound and wrote
    hdr_draws,          \* draws issued by the current render() call
    hdr_stats,          \* RenderPassStatistics.draw_calls of the call
    \* ---- PointShadowMapRenderer (src/src/renderer/shadow/point.rs)
    faces,              \* the 6 PointShadowCubeMapFace of the renderer
    graph,              \* the scene graph: node handle -> node
    batch_storage,      \* the batches of the current render() call
    shadow_pc,          \* "Idle", "Face", "Batch" or "Returned"
    face_i,             \* position of the loop over faces
    batch_i,            \* position of the loop over batches
    shadow_log,         \* face clears and draws of the current call
    shadow_stats,       \* RenderPassStatistics.draw_calls of the call
    cascades,           \* the 3 cascade framebuffers: their sizes
    shadow_cascade,     \* the cascade argument of the current call
    \* ---- UiRenderer (src/src/renderer/ui_renderer.rs)
    ui_pc,              \* "Idle", "Loop", "ReturnedOk", "ReturnedErr", "Panicked"
    ui_commands,        \* number of commands of the display list
    ui_i,               \* position of the loop over commands
    ui_cmd,             \* the command the loop body ran last
    ui_log,             \* device operations of the current call
    ui_stats,           \* RenderPassStatistics.draw_calls of the call
    ui_ops,             \* operations of the last loop body, with arguments
    ui_viewport,        \* viewport.size.y of the call
    ui_font_texture,    \* font.texture of the display list's font is Some
    ui_diffuse_texture, \* the local diffuse_texture of the last loop body
    \* ---- GpuProgram (src/src/renderer/framework/gpu_program.rs)
    gl_shaders,         \* device shader objects: [type, deletes, program]
    gl_programs,        \* device program objects: [owner, deletes]
    gpu_n,              \* number of from_source calls so far
    gpu_last,           \* the last from_source call: answers, calls, result
    \* ---- the constructors of the renderers
    new_renderer,       \* the renderer being constructed, "None" before
    new_failing,        \* the steps of the constructor the device fails
    new_done,           \* the steps the constructor has run
    new_result,         \* [kind: "None" (running), "Ok" or "Err", error]
    \* ---- FormattedText::build (src/rg3d-ui/src/formatted_text.rs)
    text_in,            \* text, wrap, constraint.x and font of the FormattedText
    text_pc,            \* "Loop", "Built" or "Panicked"
    text_i,             \* position of the loop over the symbols
    current_line,       \* the local current_line: [begin, end, width]
    word,               \* the local word: <<>> or <<[width, length]>>
    lines,              \* self.lines
    \* ---- Model::instantiate (src/src/resource/model.rs)
    inst_in,            \* resource kind, model scene and destination scene of the call
    dest_scene,         \* dest_scene: [nodes, animations]
    old_new_mapping,    \* the local old_new_mapping
    stack,              \* the local stack of node handles
    inst_result,        \* [kind: "None" (running), "Ok" or "Err", root]
    inst_pc,            \* "Idle", "Nodes" or "Returned"
    anim_i,             \* position of the loop over the animations
    \* ---- ColliderDesc (src/src/scene/physics/desc.rs)
    collider,           \* the collider: its interaction groups and sensor flag
    collider_desc,      \* ColliderDesc::from_collider(collider)
    rebuilt,            \* the collider of convert_to_collider
    desc_pc             \* "Collider", "Desc" or "Rebuilt"

hdrVars == <<hdr_stage, hdr_in, hdr_frame, frame_luminance, downscale_chain,
             down_i, prev_luminance, adaptation_chain, hdr_adapt, hdr_draws,
             hdr_stats>>

shadowVars == <<faces, graph, batch_storage, shadow_pc, face_i, batch_i,
                shadow_log, shadow_stats, cascades, shadow_cascade>>

uiVars == <<ui_pc, ui_commands, ui_i, ui_cmd, ui_log, ui_stats, ui_ops,
            ui_viewport, ui_font_texture, ui_diffuse_texture>>

gpuVars == <<gl_shaders, gl_programs, gpu_n, gpu_last>>

newVars == <<new_renderer, new_failing, new_done, new_result>>

textVars == <<text_in, text_pc, text_i, current_line, word, lines>>

instVars == <<inst_in, dest_scene, old_new_mapping, stack, inst_result,
              inst_pc, anim_i>>

descVars == <<collider, collider_desc, rebuilt, desc_pc>>

vars == <<hdrVars, shadowVars, uiVars, gpuVars, newVars, textVars, instVars,
          descVars>>

\* What each pass leaves alone: the state of the other passes.
hdrOthers == <<shadowVars, uiVars, gpuVars, newVars, textVars, instVars,
               descVars>>
shadowOthers == <<hdrVars, uiVars, gpuVars, newVars, textVars, instVars,
                  descVars>>
uiOthers == <<hdrVars, shadowVars, gpuVars, newVars, textVars, instVars,
              descVars>>
gpuOthers == <<hdrVars, shadowVars, uiVars, newVars, textVars, instVars,
               descVars>>
newOthers == <<hdrVars, shadowVars, uiVars, gpuVars, textVars, instVars,
               descVars>>
textOthers == <<hdrVars, shadowVars, uiVars, gpuVars, newVars, instVars,
                descVars>>
instOthers == <<hdrVars, shadowVars, uiVars, gpuVars, newVars, textVars,
                descVars>>
descOthers == <<hdrVars, shadowVars, uiVars, gpuVars, newVars, textVars,
                instVars>>

(***************************************************************************)
(* Bounds of the model.                                                    *)
(***************************************************************************)
MaxFrames == 2      \* render() calls per behaviour
MaxLum == 2         \* scene luminance levels are 0..MaxLum (times 1000)
MaxBatches == 2     \* batches in the batch storage of a shadow pass
MaxCommands == 3    \* commands in the display list of a UI pass
MaxPrograms == 2    \* from_source calls per behaviour

(***************************************************************************)
(* Luminance values are fixed-point numbers, 1000 standing for 1.0 (the    *)
(* F32 texel is a finite-precision number too).  Frame times dt are in     *)
(* milliseconds: a 60 Hz frame, a one second frame, a four second hitch.   *)
(***************************************************************************)
LumLevels == {k * 1000 : k \in 0..MaxLum}
FrameTimes == {16, 1000, 4000}

\* Round-to-nearest division of an integer by a positive integer.
RoundDiv(n, d) == (2 * n + d) \div (2 * d)

\* statistics += the statistics of n draw calls: RenderPassStatistics
\* counts one draw call for every draw.  The mutation counts a draw only
\* into statistics that are still empty.
AddDrawCalls_FirstOnly(stats, n) == IF stats = 0 THEN n ELSE stats

AddDrawCalls(stats, n) == stats + n

(***************************************************************************)
(* Texture identities.                                                     *)
(***************************************************************************)
TexFrameLuminance == <<"frame_luminance", 0>>
TexDownscale(i) == <<"downscale_chain", i>>
TexAdaptation(k) == <<"adaptation_chain", k>>
TexStubLut == <<"stub_lut", 0>>
TexColorGradingLut == <<"color_grading_lut", 0>>
TexHdrSceneFrame == <<"hdr_scene_frame", 0>>
TexBloom == <<"bloom_texture", 0>>
TexLdrFramebuffer == <<"ldr_framebuffer", 0>>

\* LumBuffer::new: a square F32 target of the given size, no initial data.
LumBuffer(size, value) == [size |-> size, value |-> value, frame |-> 0]

\* HighDynamicRangeRenderer::new: the sizes of the luminance chain.
FrameLuminanceSize == 64
DownscaleSizes == <<32, 16, 8, 4, 2, 1>>

(***************************************************************************)
(* HighDynamicRangeRenderer                                                *)
(***************************************************************************)

\* The value held by a luminance texture (textures are modelled by the
\* mean of their texels).
TexValue(tex) ==
    IF tex = TexFrameLuminance THEN frame_luminance.value
    ELSE IF tex[1] = "downscale_chain" THEN downscale_chain[tex[2]].value
    ELSE adaptation_chain.lum_framebuffers[tex[2]].value

\* A draw call of the pass: the stage that issued it, the target it
\* rendered into (with the side of the viewport when the target is a
\* LumBuffer), the textures bound to the program's samplers, and the
\* scalar uniforms the properties below read.
HdrDraw(stage, target, lum_size, samplers, speed, flag, auto) ==
    [stage |-> stage, target |-> target, lum_size |-> lum_size,
     samplers |-> samplers, speed |-> speed, use_color_grading |-> flag,
     auto_exposure |-> auto]

\* render(): the order of the four stage calls.
StageAfter_AdaptLast(stage) ==
    CASE stage = "ComputeFrameLuminance" -> "DownscaleChain"
      [] stage = "DownscaleChain" -> "ToneMap"
      [] stage = "ToneMap" -> "Adapt"
      [] stage = "Adapt" -> "Idle"

StageAfter(stage) ==
    CASE stage = "ComputeFrameLuminance" -> "DownscaleChain"
      [] stage = "DownscaleChain" -> "Adapt"
      [] stage = "Adapt" -> "ToneMap"
      [] stage = "ToneMap" -> "Idle"

\* The luminance-extraction and downscale shaders, on the mean of the
\* sampled texture: the luminance of a scene of uniform luminance, and the
\* 2x box average of a uniform texture.
LuminanceShader(scene_lum) == scene_lum

DownscaleShader(src_lum) == src_lum

\* adaptation(): the terminal buffer of the chain is the instant luminance.
NewLum_First == TexDownscale(1)

NewLum == TexDownscale(Len(downscale_chain))

\* adaptation(): the speed uniform, 0.3 * dt, here in units of 1/10000
\* (dt is in milliseconds).
AdaptationSpeed(dt) == 3 * dt

\* The adaptation shader: the previous adapted luminance blended towards
\* the instant one by the factor speed.
AdaptationShader(old_lum, new_lum, speed) ==
    old_lum + RoundDiv((new_lum - old_lum) * speed, 10000)

\* AdaptationChain::begin: the buffer to read as previous and the buffer to
\* write, then the pair is swapped for the next frame.
Begin(chain) ==
    IF chain.swap
    THEN [prev_lum |-> TexAdaptation(0), lum_buffer |-> 1]
    ELSE [prev_lum |-> TexAdaptation(1), lum_buffer |-> 0]

\* AdaptationChain::avg_lum_texture: the buffer written by the last begin.
AvgLumTexture(chain) ==
    IF chain.swap THEN TexAdaptation(0) ELSE TexAdaptation(1)

\* adaptation(): the texture bound to old_lum_sampler.
OldLumSource_Target(ctx) == TexAdaptation(ctx.lum_buffer)

OldLumSource(ctx) == ctx.prev_lum

\* map_hdr_to_ldr(): the texture bound to color_map_sampler and the
\* use_color_grading flag.
ColorGradingLutTex_Unchecked(lut, in_cache) ==
    IF lut THEN TexColorGradingLut ELSE TexStubLut

ColorGradingLutTex(lut, in_cache) ==
    IF lut /\ in_cache THEN TexColorGradingLut ELSE TexStubLut

UseColorGradingFlag(use_color_grading, lut) == use_color_grading /\ lut

NoAdapt == [prev_lum |-> TexAdaptation(1), lum_buffer |-> 0,
            new_lum |-> TexDownscale(1), old_val |-> 0, new_val |-> 0,
            speed |-> 0, dt |-> 0, out |-> 0, frame |-> 0]

NoInput == [scene_lum |-> 0, dt |-> 0, exposure |-> "Auto",
            color_grading_lut |-> FALSE, use_color_grading |-> FALSE,
            lut_in_cache |-> FALSE]

HdrInputs ==
    { in \in [scene_lum : LumLevels, dt : FrameTimes,
              exposure : {"Auto", "Manual"},
              color_grading_lut : BOOLEAN, use_color_grading : BOOLEAN,
              lut_in_cache : BOOLEAN] :
        in.lut_in_cache => in.color_grading_lut }

HdrInit ==
    /\ hdr_stage = "Idle"
    /\ hdr_in = NoInput
    /\ hdr_frame = 0
    /\ frame_luminance = LumBuffer(FrameLuminanceSize, 0)
    /\ downscale_chain = [i \in 1..Len(DownscaleSizes) |->
                             LumBuffer(DownscaleSizes[i], 0)]
    /\ down_i = 1
    /\ prev_luminance = TexFrameLuminance
    \* AdaptationChain::new uploads no data: the first "previous" value is
    \* whatever the device memory holds.
    /\ \E a \in LumLevels, b \in LumLevels :
          adaptation_chain =
              [lum_framebuffers |-> [k \in {0, 1} |->
                   LumBuffer(1, IF k = 0 THEN a ELSE b)],
               swap |-> FALSE]
    /\ hdr_adapt = NoAdapt
    /\ hdr_draws = <<>>
    /\ hdr_stats = 0

\* Entering a stage function initialises its locals.
HdrEnter(stage) ==
    /\ hdr_stage' = stage
    /\ down_i' = 1
    /\ prev_luminance' = TexFrameLuminance

\* render(): a call with its arguments; statistics start at zero.
hdr_render ==
    /\ hdr_stage = "Idle"
    /\ hdr_frame < MaxFrames
    /\ \E in \in HdrInputs : hdr_in' = in
    /\ hdr_frame' = hdr_frame + 1
    /\ hdr_draws' = <<>>
    /\ hdr_stats' = 0
    /\ HdrEnter("ComputeFrameLuminance")
    /\ UNCHANGED <<frame_luminance, downscale_chain, adaptation_chain,
                   hdr_adapt>>
    /\ UNCHANGED hdrOthers

\* The 64x64 target is cleared to black, then the luminance of the scene
\* frame is drawn over the whole of it.
calculate_frame_luminance ==
    /\ hdr_stage = "ComputeFrameLuminance"
    /\ frame_luminance' =
          [frame_luminance EXCEPT !.value = LuminanceShader(hdr_in.scene_lum),
                                  !.frame = hdr_frame]
    /\ hdr_draws' = Append(hdr_draws,
          HdrDraw("ComputeFrameLuminance", TexFrameLuminance,
                  frame_luminance.size,
                  {<<"frameSampler", TexHdrSceneFrame>>}, 0, FALSE, FALSE))
    /\ hdr_stats' = AddDrawCalls(hdr_stats, 1)
    /\ HdrEnter(StageAfter(hdr_stage))
    /\ UNCHANGED <<hdr_in, hdr_frame, downscale_chain, adaptation_chain,
                   hdr_adapt>>
    /\ UNCHANGED hdrOthers

\* One iteration of the loop over downscale_chain.
calculate_avg_frame_luminance ==
    /\ hdr_stage = "DownscaleChain"
    /\ down_i \in 1..Len(downscale_chain)
    /\ downscale_chain' =
          [downscale_chain EXCEPT
              ![down_i].value = DownscaleShader(TexValue(prev_luminance)),
              ![down_i].frame = hdr_frame]
    /\ hdr_draws' = Append(hdr_draws,
          HdrDraw("DownscaleChain", TexDownscale(down_i),
                  downscale_chain[down_i].size,
                  {<<"lumSampler", prev_luminance>>}, 0, FALSE, FALSE))
    /\ hdr_stats' = AddDrawCalls(hdr_stats, 1)
    /\ IF down_i = Len(downscale_chain)
       THEN HdrEnter(StageAfter(hdr_stage))
       ELSE /\ down_i' = down_i + 1
            /\ prev_luminance' = TexDownscale(down_i)
            /\ UNCHANGED hdr_stage
    /\ UNCHANGED <<hdr_in, hdr_frame, frame_luminance, adaptation_chain,
                   hdr_adapt>>
    /\ UNCHANGED hdrOthers

adaptation ==
    /\ hdr_stage = "Adapt"
    /\ LET new_lum == NewLum
           ctx == Begin(adaptation_chain)
           old_tex == OldLumSource(ctx)
           speed == AdaptationSpeed(hdr_in.dt)
           out == AdaptationShader(TexValue(old_tex), TexValue(new_lum), speed)
       IN /\ adaptation_chain' =
                [lum_framebuffers |->
                    [adaptation_chain.lum_framebuffers EXCEPT
                        ![ctx.lum_buffer].value = out,
                        ![ctx.lum_buffer].frame = hdr_frame],
                 swap |-> ~adaptation_chain.swap]
          /\ hdr_adapt' = [prev_lum |-> old_tex, lum_buffer |-> ctx.lum_buffer,
                           new_lum |-> new_lum, old_val |-> TexValue(old_tex),
                           new_val |-> TexValue(new_lum), speed |-> speed,
                           dt |-> hdr_in.dt, out |-> out, frame |-> hdr_frame]
          /\ hdr_draws' = Append(hdr_draws,
                HdrDraw("Adapt", TexAdaptation(ctx.lum_buffer),
                        adaptation_chain.lum_framebuffers[ctx.lum_buffer].size,
                        {<<"oldLumSampler", old_tex>>,
                         <<"newLumSampler", new_lum>>}, speed, FALSE, FALSE))
    /\ hdr_stats' = AddDrawCalls(hdr_stats, 1)
    /\ HdrEnter(StageAfter(hdr_stage))
    /\ UNCHANGED <<hdr_in, hdr_frame, frame_luminance, downscale_chain>>
    /\ UNCHANGED hdrOthers

map_hdr_to_ldr ==
    /\ hdr_stage = "ToneMap"
    /\ LET avg_lum == AvgLumTexture(adaptation_chain)
           color_grading_lut_tex ==
               ColorGradingLutTex(hdr_in.color_grading_lut, hdr_in.lut_in_cache)
       IN hdr_draws' = Append(hdr_draws,
             HdrDraw("ToneMap", TexLdrFramebuffer, 0,
                     {<<"lumSampler", avg_lum>>,
                      <<"bloomSampler", TexBloom>>,
                      <<"hdrSampler", TexHdrSceneFrame>>,
                      <<"colorMapSampler", color_grading_lut_tex>>},
                     0,
                     UseColorGradingFlag(hdr_in.use_color_grading,
                                         hdr_in.color_grading_lut),
                     hdr_in.exposure = "Auto"))
    /\ hdr_stats' = AddDrawCalls(hdr_stats, 1)
    /\ HdrEnter(StageAfter(hdr_stage))
    /\ UNCHANGED <<hdr_in, hdr_frame, frame_luminance, downscale_chain,
                   adaptation_chain, hdr_adapt>>
    /\ UNCHANGED hdrOthers

HdrNext ==
    \/ hdr_render
    \/ calculate_frame_luminance
    \/ calculate_avg_frame_luminance
    \/ adaptation
    \/ map_hdr_to_ldr

(***************************************************************************)
(* PointShadowMapRenderer                                                  *)
(***************************************************************************)

\* Vectors are triples of integers.
Dot(a, b) == a[1] * b[1] + a[2] * b[2] + a[3] * b[3]

Cross(a, b) == <<a[2] * b[3] - a[3] * b[2],
                 a[3] * b[1] - a[1] * b[3],
                 a[1] * b[2] - a[2] * b[1]>>

\* PointShadowMapRenderer::new: the faces array.
CubeFaces_UpAlongLook ==
    << [face |-> "PositiveX", look |-> <<1, 0, 0>>,  up |-> <<0, -1, 0>>],
       [face |-> "NegativeX", look |-> <<-1, 0, 0>>, up |-> <<0, -1, 0>>],
       [face |-> "PositiveY", look |-> <<0, 1, 0>>,  up |-> <<0, -1, 0>>],
       [face |-> "NegativeY", look |-> <<0, -1, 0>>, up |-> <<0, -1, 0>>],
       [face |-> "PositiveZ", look |-> <<0, 0, 1>>,  up |-> <<0, -1, 0>>],
       [face |-> "NegativeZ", look |-> <<0, 0, -1>>, up |-> <<0, -1, 0>>] >>

CubeFaces ==
    << [face |-> "PositiveX", look |-> <<1, 0, 0>>,  up |-> <<0, -1, 0>>],
       [face |-> "NegativeX", look |-> <<-1, 0, 0>>, up |-> <<0, -1, 0>>],
       [face |-> "PositiveY", look |-> <<0, 1, 0>>,  up |-> <<0, 0, 1>>],
       [face |-> "NegativeY", look |-> <<0, -1, 0>>, up |-> <<0, 0, -1>>],
       [face |-> "PositiveZ", look |-> <<0, 0, 1>>,  up |-> <<0, -1, 0>>],
       [face |-> "NegativeZ", look |-> <<0, 0, -1>>, up |-> <<0, -1, 0>>] >>

FaceNames == {CubeFaces[i].face : i \in 1..Len(CubeFaces)}

\* The scene graph the pass reads.  A mesh carries the "cast shadows" flag
\* and the outcome of is_intersect_frustum for each face's frustum; a
\* terrain and any other kind of node carry neither.
Mesh(visible, cast_shadows, in_frustum) ==
    [kind |-> "Mesh", global_visibility |-> visible,
     cast_shadows |-> cast_shadows, in_frustum |-> in_frustum]

Terrain(visible) == [kind |-> "Terrain", global_visibility |-> visible]

OtherNode(visible) == [kind |-> "Light", global_visibility |-> visible]

NodeHandles == {"mesh", "mesh_no_shadow", "mesh_hidden", "terrain",
                "terrain_hidden", "light"}

SceneGraph ==
    [h \in NodeHandles |->
        CASE h = "mesh" -> Mesh(TRUE, TRUE, {"PositiveX", "NegativeY"})
          [] h = "mesh_no_shadow" -> Mesh(TRUE, FALSE, FaceNames)
          [] h = "mesh_hidden" -> Mesh(FALSE, TRUE, FaceNames)
          [] h = "terrain" -> Terrain(TRUE)
          [] h = "terrain_hidden" -> Terrain(FALSE)
          [] h = "light" -> OtherNode(TRUE)]

\* What the shader cache and the shader set give for a batch's material.
ShaderStates == {"PointShadow", "NoPointShadow", "Unresolved"}

InstanceLists ==
    {<<h>> : h \in NodeHandles}
    \cup {<<"mesh_no_shadow", "mesh">>, <<"terrain", "light">>}

Batches == [shader : ShaderStates, instances : InstanceLists]

BatchStorages ==
    UNION {[1..n -> Batches] : n \in 0..MaxBatches}

\* render(): shader_cache.get(..) and shader_set.map.get("PointShadow")
\* both give Some.
HasPointShadowProgram_AnySet(batch) == batch.shader # "Unresolved"

HasPointShadowProgram(batch) == batch.shader = "PointShadow"

\* mesh.is_intersect_frustum(graph, &frustum) for the frustum of a face.
IsIntersectFrustum(node, face) == face.face \in node.in_frustum

\* render(): the `visible` test of an instance's owning node.
Visible_NoCastTest(node, face) ==
    node.global_visibility /\
        CASE node.kind = "Mesh" -> IsIntersectFrustum(node, face)
          [] node.kind = "Terrain" -> TRUE
          [] OTHER -> FALSE

Visible_TerrainCulled(node, face) ==
    node.global_visibility /\
        CASE node.kind = "Mesh" ->
                 node.cast_shadows /\ IsIntersectFrustum(node, face)
          [] OTHER -> FALSE

Visible(node, face) ==
    node.global_visibility /\
        CASE node.kind = "Mesh" ->
                 node.cast_shadows /\ IsIntersectFrustum(node, face)
          [] node.kind = "Terrain" -> TRUE
          [] OTHER -> FALSE

\* cascade_size(size, cascade): the side of a cascade, kept as the
\* application itself.
CascadeSize(size, cascade) == <<"cascade_size", size, cascade>>

\* PointShadowMapRenderer::new: the base sizes the renderer is built with,
\* and the three cascade framebuffers, numbered from 0.
BaseSizes == {1024}

Cascades(size) == [c \in 0..2 |-> CascadeSize(size, c)]

\* render(): the framebuffer the call renders into, &mut
\* self.cascades[cascade].  The mutation always takes the first.
TargetCascade_First(cascade) == 0

TargetCascade(cascade) == cascade

\* render(): the viewport of the call.
ShadowViewport(size, cascade) == CascadeSize(size, cascade)

\* The renderer's base size, read back from its first cascade.
ShadowSize == cascades[0][2]

ShadowClear(f) ==
    [op |-> "clear", face |-> faces[f].face, face_i |-> f, batch |-> 0,
     instance |-> 0, look |-> faces[f].look, up |-> faces[f].up,
     cascade |-> TargetCascade(shadow_cascade),
     viewport |-> ShadowViewport(ShadowSize, shadow_cascade),
     color |-> "WHITE", depth |-> "1.0", stencil |-> "None"]

ShadowDraw(f, b, i) ==
    [op |-> "draw", face |-> faces[f].face, face_i |-> f, batch |-> b,
     instance |-> i, look |-> faces[f].look, up |-> faces[f].up,
     cascade |-> TargetCascade(shadow_cascade),
     viewport |-> ShadowViewport(ShadowSize, shadow_cascade),
     color |-> "None", depth |-> "None", stencil |-> "None"]

\* The draws of the instance loop over one batch, in instance order.
RECURSIVE InstanceDraws(_, _, _)
InstanceDraws(f, b, i) ==
    IF i > Len(batch_storage[b].instances) THEN <<>>
    ELSE LET node == graph[batch_storage[b].instances[i]]
         IN (IF Visible(node, faces[f]) THEN <<ShadowDraw(f, b, i)>>
                                        ELSE <<>>)
            \o InstanceDraws(f, b, i + 1)

ShadowInit ==
    /\ faces = CubeFaces
    /\ graph = SceneGraph
    /\ batch_storage = <<>>
    /\ shadow_pc = "Idle"
    /\ face_i = 1
    /\ batch_i = 1
    /\ shadow_log = <<>>
    /\ shadow_stats = 0
    /\ cascades \in {Cascades(size) : size \in BaseSizes}
    /\ shadow_cascade = 0

\* render(): a call with its cascade and batch storage; statistics start
\* at zero.
point_shadow_render ==
    /\ shadow_pc = "Idle"
    /\ \E storage \in BatchStorages : batch_storage' = storage
    /\ \E c \in DOMAIN cascades : shadow_cascade' = c
    /\ shadow_pc' = "Face"
    /\ face_i' = 1
    /\ batch_i' = 1
    /\ shadow_log' = <<>>
    /\ shadow_stats' = 0
    /\ UNCHANGED <<faces, graph, cascades>>
    /\ UNCHANGED shadowOthers

\* The head of the loop over faces: select the cube face and clear it,
\* then build the face's view matrix and frustum.
point_shadow_face ==
    /\ shadow_pc = "Face"
    /\ IF face_i > Len(faces)
       THEN /\ shadow_pc' = "Returned"
            /\ UNCHANGED <<shadow_log, face_i, batch_i>>
       ELSE /\ shadow_log' = Append(shadow_log, ShadowClear(face_i))
            /\ batch_i' = 1
            /\ IF Len(batch_storage) = 0
               THEN /\ face_i' = face_i + 1
                    /\ UNCHANGED shadow_pc
               ELSE /\ shadow_pc' = "Batch"
                    /\ UNCHANGED face_i
    /\ UNCHANGED <<faces, graph, batch_storage, shadow_stats, cascades,
                   shadow_cascade>>
    /\ UNCHANGED shadowOthers

\* One iteration of the loop over batches, with its loop over instances.
point_shadow_batch ==
    /\ shadow_pc = "Batch"
    /\ LET batch == batch_storage[batch_i]
           draws == IF HasPointShadowProgram(batch)
                    THEN InstanceDraws(face_i, batch_i, 1)
                    ELSE <<>>
       IN /\ shadow_log' = shadow_log \o draws
          /\ shadow_stats' = AddDrawCalls(shadow_stats, Len(draws))
    /\ IF batch_i = Len(batch_storage)
       THEN /\ shadow_pc' = "Face"
            /\ face_i' = face_i + 1
            /\ batch_i' = 1
       ELSE /\ batch_i' = batch_i + 1
            /\ UNCHANGED <<shadow_pc, face_i>>
    /\ UNCHANGED <<faces, graph, batch_storage, cascades, shadow_cascade>>
    /\ UNCHANGED shadowOthers

ShadowNext ==
    \/ point_shadow_render
    \/ point_shadow_face
    \/ point_shadow_batch

(***************************************************************************)
(* UiRenderer                                                              *)
(***************************************************************************)

\* Textures a content draw can bind to the diffuse sampler.
WhiteDummy == <<"white_dummy", 0>>
TexFontAtlas == <<"font_atlas", 0>>
TexCommand == <<"command_texture", 0>>

\* Colors are <<r, g, b, a>> with 8-bit channels.
ColorWhite == <<255, 255, 255, 255>>
ColorRed == <<255, 0, 0, 255>>

\* Color::as_frgba: the channels as fractions of 255, kept in thousandths.
AsFrgba(color) == [i \in 1..4 |-> RoundDiv(color[i] * 1000, 255)]

\* A gradient of n stops; stop positions are in hundredths, and no stop has
\* position zero or a black transparent color.
GradientStops(n) ==
    [i \in 1..n |-> [stop |-> 5 * i, color |-> <<15 * i, 255 - i, 0, 255>>]]

\* The brushes of the commands: Brush::Solid(color) and the two gradients
\* with their stops.
Brushes == {[kind |-> "Solid", color |-> ColorRed, stops |-> <<>>],
            [kind |-> "LinearGradient", color |-> ColorWhite,
             stops |-> GradientStops(2)],
            [kind |-> "LinearGradient", color |-> ColorWhite,
             stops |-> GradientStops(16)],
            [kind |-> "RadialGradient", color |-> ColorWhite,
             stops |-> GradientStops(1)],
            [kind |-> "RadialGradient", color |-> ColorWhite,
             stops |-> GradientStops(17)]}

\* CommandTexture: None, Font or Texture.  For a font, whether its atlas
\* pixels make a texture (TextureData::from_bytes); for a texture, whether
\* the shared resource is a texture (the downcast); for both, whether the
\* texture cache resolves the resource.
CommandTextures ==
    {[kind |-> "None", atlas_ok |-> TRUE, is_texture |-> TRUE,
      in_cache |-> FALSE]}
    \cup {[kind |-> "Font", atlas_ok |-> a, is_texture |-> TRUE,
           in_cache |-> c] : a \in BOOLEAN, c \in BOOLEAN}
    \cup {[kind |-> "Texture", atlas_ok |-> TRUE, is_texture |-> t,
           in_cache |-> c] : t \in BOOLEAN, c \in BOOLEAN}

\* Clip bounds of a command, in halves of a pixel: a whole-pixel rectangle,
\* one with fractional position and size, one with a negative position,
\* one of a whole size at a fractional position.
ClipBounds == {[x |-> 0, y |-> 0, w |-> 8, h |-> 4],
               [x |-> 3, y |-> 5, w |-> 7, h |-> 3],
               [x |-> -3, y |-> -1, w |-> 5, h |-> 5],
               [x |-> 1, y |-> 1, w |-> 2, h |-> 2]}

\* viewport.size.y of the calls, in pixels.
ViewportHeights == {6, 10}

NoCommand == [clipping_geometry |-> FALSE,
              brush |-> [kind |-> "Solid", color |-> ColorRed,
                         stops |-> <<>>],
              texture |-> [kind |-> "None", atlas_ok |-> TRUE,
                           is_texture |-> TRUE, in_cache |-> FALSE],
              clip_bounds |-> [x |-> 0, y |-> 0, w |-> 8, h |-> 4],
              draw_ok |-> TRUE]

\* The commands of a display list: whether the command carries clipping
\* geometry, its brush, its texture, its clip bounds, and whether
\* draw_part succeeds for its triangle range.  Brush, texture and clip
\* bounds do not interact in render(), so a command departs from the plain
\* one (solid brush, no texture, whole-pixel bounds) in at most one of them.
Commands ==
    {cmd \in [clipping_geometry : BOOLEAN, brush : Brushes,
              texture : CommandTextures, clip_bounds : ClipBounds,
              draw_ok : BOOLEAN] :
        Cardinality({f \in {"brush", "texture", "clip_bounds"} :
                        cmd[f] # NoCommand[f]}) <= 1}

UiOp(c, op) == [cmd |-> c, op |-> op]

\* f32::floor and f32::ceil of a value given in halves.
Floor(v) == v \div 2

Ceil(v) == -((-v) \div 2)

\* render(): the scissor box of a command, with the origin at the top
\* left (the mutation) and as the code computes it.
ScissorBox_TopLeft(clip_bounds, viewport_h) ==
    [x |-> Floor(clip_bounds.x), y |-> Floor(clip_bounds.y),
     w |-> Ceil(clip_bounds.w), h |-> Ceil(clip_bounds.h)]

ScissorBox(clip_bounds, viewport_h) ==
    [x |-> Floor(clip_bounds.x),
     y |-> viewport_h - (Floor(clip_bounds.y) + Ceil(clip_bounds.h)),
     w |-> Ceil(clip_bounds.w),
     h |-> Ceil(clip_bounds.h)]

\* render(): the local stencil_test at the content draw.
StencilTest_Always(cmd) == TRUE

StencilTest(cmd) == cmd.clipping_geometry

\* render(): the DrawParameters of the clip draw and of the content draw.
ClipDrawParameters ==
    [culling |-> FALSE, color_write |-> FALSE, depth_write |-> FALSE,
     stencil_test |-> FALSE, depth_test |-> FALSE, blend |-> FALSE]

ContentDrawParameters(stencil_test) ==
    [culling |-> FALSE, color_write |-> TRUE, depth_write |-> FALSE,
     stencil_test |-> stencil_test, depth_test |-> FALSE, blend |-> TRUE]

\* render(): the device operations of the clip pass, in program order.
ClipPassOps == <<"clear_stencil", "set_stencil_op", "set_stencil_func",
                 "set_stencil_mask", "draw_clip", "set_stencil_func",
                 "set_stencil_mask">>

\* render(): the arguments of the operations of the clip pass; fields
\* left to Default::default() are not recorded.  The mutation leaves the
\* stencil function at ALWAYS for the content draw.
ClipPassArgs_FuncAlways ==
    <<[color |-> "None", depth |-> "None", stencil |-> 0],
      [zpass |-> "INCR"],
      [func |-> "ALWAYS", ref_value |-> "Default"],
      255,
      ClipDrawParameters,
      [func |-> "ALWAYS", ref_value |-> "Default"],
      0>>

ClipPassArgs ==
    <<[color |-> "None", depth |-> "None", stencil |-> 0],
      [zpass |-> "INCR"],
      [func |-> "ALWAYS", ref_value |-> "Default"],
      255,
      ClipDrawParameters,
      [func |-> "EQUAL", ref_value |-> 1],
      0>>

\* render(): the device operations of the loop body, in program order; the
\* content draw is the last one.
CommandOps(cmd) ==
    <<"set_scissor_box">>
    \o (IF cmd.clipping_geometry THEN ClipPassOps ELSE <<>>)
    \o <<"draw_content">>

\* render(): the raw_stops and raw_colors arrays have 16 entries; writing
\* a 17th stop is an out-of-bounds index.
RawStopsLen == 16

\* render(): diffuse_texture at the start of a loop iteration, carried
\* over from the iteration before (the mutation) and as the code sets it.
DiffuseTextureStart_Carried(previous) == previous

DiffuseTextureStart(previous) == WhiteDummy

\* render(): font.texture after the Font arm has tried to build the atlas
\* texture; TRUE stands for Some.
FontTextureAfter(font_texture, texture) ==
    IF texture.kind = "Font" /\ ~font_texture
    THEN texture.atlas_ok ELSE font_texture

\* render(): font.texture.clone().unwrap() panics on None.
FontUnwrapPanics(font_texture, texture) ==
    texture.kind = "Font" /\ ~FontTextureAfter(font_texture, texture)

\* render(): diffuse_texture after the match on cmd.texture.
DiffuseTexture(start, texture) ==
    CASE texture.kind = "Font" /\ texture.in_cache -> TexFontAtlas
      [] texture.kind = "Texture" /\ texture.is_texture /\ texture.in_cache
            -> TexCommand
      [] OTHER -> start

IsFontTexture(texture) == texture.kind = "Font"

\* render(): the brush uniforms of the content draw.  The mutation numbers
\* the gradients the other way round.
BrushType_Swapped(brush) ==
    CASE brush.kind = "Solid" -> 0
      [] brush.kind = "LinearGradient" -> 2
      [] brush.kind = "RadialGradient" -> 1

BrushType(brush) ==
    CASE brush.kind = "Solid" -> 0
      [] brush.kind = "LinearGradient" -> 1
      [] brush.kind = "RadialGradient" -> 2

SolidColor(brush) == IF brush.kind = "Solid" THEN brush.color ELSE ColorWhite

GradientPointCount(brush) ==
    IF brush.kind = "Solid" THEN 0 ELSE Len(brush.stops)

RawStops(brush) ==
    [i \in 1..RawStopsLen |->
        IF brush.kind # "Solid" /\ i <= Len(brush.stops)
        THEN brush.stops[i].stop ELSE 0]

RawColors(brush) ==
    [i \in 1..RawStopsLen |->
        IF brush.kind # "Solid" /\ i <= Len(brush.stops)
        THEN AsFrgba(brush.stops[i].color) ELSE <<0, 0, 0, 0>>]

\* render(): what the content draw is issued with.
ContentDraw(cmd, diffuse_texture) ==
    [params |-> ContentDrawParameters(StencilTest(cmd)),
     diffuse_texture |-> diffuse_texture,
     is_font |-> IsFontTexture(cmd.texture),
     brush_type |-> BrushType(cmd.brush),
     solid_color |-> SolidColor(cmd.brush),
     gradient_point_count |-> GradientPointCount(cmd.brush),
     gradient_stops |-> RawStops(cmd.brush),
     gradient_colors |-> RawColors(cmd.brush)]

\* render(): the arguments of the operations of the loop body, in the
\* order of CommandOps.
CommandArgs(cmd, viewport_h, diffuse_texture) ==
    <<ScissorBox(cmd.clip_bounds, viewport_h)>>
    \o (IF cmd.clipping_geometry THEN ClipPassArgs ELSE <<>>)
    \o <<ContentDraw(cmd, diffuse_texture)>>

\* for cmd in drawing_context.get_commands(): the command run at a loop
\* position.
CommandAt_Reversed(pos, n) == n + 1 - pos

CommandAt(pos, n) == pos

\* The operations of a command that are issued when its content draw is
\* not: everything before the content draw.
RECURSIVE UpToContent(_)
UpToContent(ops) ==
    IF ops = <<>> \/ Head(ops) = "draw_content" THEN <<>>
    ELSE <<Head(ops)>> \o UpToContent(Tail(ops))

IsDraw(op) == op \in {"draw_clip", "draw_content"}

DrawCount(ops) == Cardinality({k \in 1..Len(ops) : IsDraw(ops[k])})

UiInit ==
    /\ ui_pc = "Idle"
    /\ ui_commands = 0
    /\ ui_i = 1
    /\ ui_cmd = NoCommand
    /\ ui_log = <<>>
    /\ ui_stats = 0
    /\ ui_ops = <<>>
    /\ ui_viewport = 0
    /\ ui_font_texture = FALSE
    /\ ui_diffuse_texture = WhiteDummy

\* render() up to the loop: the vertex data is uploaded and the scissor
\* test enabled.  The font of the display list has its atlas texture
\* already or not.
ui_render ==
    /\ ui_pc = "Idle"
    /\ \E n \in 0..MaxCommands : ui_commands' = n
    /\ \E h \in ViewportHeights : ui_viewport' = h
    /\ \E t \in BOOLEAN : ui_font_texture' = t
    /\ ui_pc' = "Loop"
    /\ ui_i' = 1
    /\ ui_cmd' = NoCommand
    /\ ui_log' = <<UiOp(0, "set_scissor_test_on")>>
    /\ ui_ops' = <<>>
    /\ ui_stats' = 0
    /\ UNCHANGED ui_diffuse_texture
    /\ UNCHANGED uiOthers

\* One iteration of the loop over the commands.  unwrap() of a font
\* texture that could not be built panics; the uniforms closure of the
\* content draw panics on a brush with more stops than the arrays hold; a
\* failed draw_part makes render return the error.
ui_command ==
    /\ ui_pc = "Loop"
    /\ ui_i <= ui_commands
    /\ \E cmd \in Commands :
          LET c == CommandAt(ui_i, ui_commands)
              unwrap_panics == FontUnwrapPanics(ui_font_texture, cmd.texture)
              index_panics == Len(cmd.brush.stops) > RawStopsLen
              diffuse == IF unwrap_panics
                         THEN DiffuseTextureStart(ui_diffuse_texture)
                         ELSE DiffuseTexture(
                                 DiffuseTextureStart(ui_diffuse_texture),
                                 cmd.texture)
              all == CommandOps(cmd)
              args == CommandArgs(cmd, ui_viewport, diffuse)
              done == IF ~unwrap_panics /\ ~index_panics /\ cmd.draw_ok
                      THEN all ELSE UpToContent(all)
          IN /\ ui_cmd' = cmd
             /\ ui_font_texture' = FontTextureAfter(ui_font_texture,
                                                    cmd.texture)
             /\ ui_diffuse_texture' = diffuse
             /\ ui_log' = ui_log \o [k \in 1..Len(done) |-> UiOp(c, done[k])]
             /\ ui_ops' = [k \in 1..Len(done) |->
                              [cmd |-> c, op |-> done[k], arg |-> args[k]]]
             /\ ui_stats' = AddDrawCalls(ui_stats, DrawCount(done))
             /\ \/ /\ unwrap_panics \/ index_panics
                   /\ ui_pc' = "Panicked"
                   /\ UNCHANGED ui_i
                \/ /\ ~unwrap_panics /\ ~index_panics
                   /\ ~cmd.draw_ok
                   /\ ui_pc' = "ReturnedErr"
                   /\ UNCHANGED ui_i
                \/ /\ ~unwrap_panics /\ ~index_panics
                   /\ cmd.draw_ok
                   /\ ui_i' = ui_i + 1
                   /\ UNCHANGED ui_pc
    /\ UNCHANGED <<ui_commands, ui_viewport>>
    /\ UNCHANGED uiOthers

\* render() after the loop: the scissor test is disabled and the
\* statistics returned.
ui_finish ==
    /\ ui_pc = "Loop"
    /\ ui_i > ui_commands
    /\ ui_log' = Append(ui_log, UiOp(ui_commands + 1, "set_scissor_test_off"))
    /\ ui_pc' = "ReturnedOk"
    /\ UNCHANGED <<ui_commands, ui_i, ui_cmd, ui_stats, ui_ops, ui_viewport,
                   ui_font_texture, ui_diffuse_texture>>
    /\ UNCHANGED uiOthers

UiNext ==
    \/ ui_render
    \/ ui_command
    \/ ui_finish

(***************************************************************************)
(* GpuProgram (src/src/renderer/framework/gpu_program.rs)                  *)
(***************************************************************************)

\* Names from_source is called with.
ProgramNames == {"UIShader", "DownscaleShader"}

\* What the device answers for one shader: whether create_shader gives an
\* object, the compile status and the info log.
ShaderAnswers ==
    {[created |-> TRUE, status |-> TRUE, log |-> ""],
     [created |-> TRUE, status |-> TRUE, log |-> "warning"],
     [created |-> TRUE, status |-> FALSE, log |-> "syntax error"],
     [created |-> FALSE, status |-> FALSE, log |-> "out of memory"]}

\* What the device answers for the program: whether create_program gives
\* an object, the link status and the info log.
ProgramAnswers ==
    {[created |-> TRUE, status |-> TRUE, log |-> ""],
     [created |-> TRUE, status |-> FALSE, log |-> "unresolved varying"],
     [created |-> FALSE, status |-> FALSE, log |-> "out of memory"]}

\* format!("{}_VertexShader", name) and format!("{}_FragmentShader", name).
VertexShaderName(name) == <<name, "_VertexShader">>

FragmentShaderName(name) == <<name, "_FragmentShader">>

\* Results of from_source and create_shader.
GpuOk(id) ==
    [kind |-> "Ok", shader_name |-> <<>>, error_message |-> "", id |-> id]

GpuErr(kind, shader_name, error_message) ==
    [kind |-> kind, shader_name |-> shader_name,
     error_message |-> error_message, id |-> 0]

NoResult == GpuErr("None", <<>>, "")

\* create_shader: the device calls it makes and what it returns.  The
\* mutation returns the shader whatever the compile status.
CreateShader_IgnoreStatus(name, actual_type, answer, id) ==
    IF ~answer.created
    THEN [calls |-> <<<<"create_shader", actual_type>>>>,
          result |-> GpuErr("Custom", <<>>, answer.log)]
    ELSE [calls |-> <<<<"create_shader", actual_type>>,
                      <<"shader_source", actual_type>>,
                      <<"compile_shader", actual_type>>>>,
          result |-> GpuOk(id)]

CreateShader(name, actual_type, answer, id) ==
    IF ~answer.created
    THEN [calls |-> <<<<"create_shader", actual_type>>>>,
          result |-> GpuErr("Custom", <<>>, answer.log)]
    ELSE [calls |-> <<<<"create_shader", actual_type>>,
                      <<"shader_source", actual_type>>,
                      <<"compile_shader", actual_type>>>>,
          result |-> IF ~answer.status
                     THEN GpuErr("ShaderCompilationFailed", name, answer.log)
                     ELSE GpuOk(id)]

\* A device shader object: its type, how often delete_shader was called on
\* it and the program it is attached to (0 for none).
ShaderObject(actual_type, deletes, program) ==
    [type |-> actual_type, deletes |-> deletes, program |-> program]

\* A device program object: whether a GpuProgram wraps it ("none", "live"
\* or "dropped") and how often delete_program was called on it.
ProgramObject(owner, deletes) == [owner |-> owner, deletes |-> deletes]

\* Drop for GpuProgram: the device program after delete_program.  The
\* mutation leaves the device program alone.
DeleteProgram_Skipped(program) == ProgramObject("dropped", program.deletes)

DeleteProgram(program) == ProgramObject("dropped", program.deletes + 1)

\* from_source: the device calls, the device objects it leaves behind and
\* the result, for the answers of the device.  The shaders get the ids
\* after ns, the program the id after np.
FromSource(name, vs, fs, prog, ns, np) ==
    LET v == CreateShader(VertexShaderName(name), "VERTEX_SHADER", vs,
                          ns + 1)
        f == CreateShader(FragmentShaderName(name), "FRAGMENT_SHADER", fs,
                          ns + 2)
        vobj(d, p) == ShaderObject("VERTEX_SHADER", d, p)
        fobj(d, p) == ShaderObject("FRAGMENT_SHADER", d, p)
    IN IF v.result.kind # "Ok"
       THEN [calls |-> v.calls,
             shaders |-> IF vs.created THEN <<vobj(0, 0)>> ELSE <<>>,
             programs |-> <<>>,
             result |-> v.result]
       ELSE IF f.result.kind # "Ok"
       THEN [calls |-> v.calls \o f.calls,
             shaders |-> <<vobj(0, 0)>>
                         \o (IF fs.created THEN <<fobj(0, 0)>> ELSE <<>>),
             programs |-> <<>>,
             result |-> f.result]
       ELSE IF ~prog.created
       THEN [calls |-> v.calls \o f.calls \o <<<<"create_program", name>>>>,
             shaders |-> <<vobj(0, 0), fobj(0, 0)>>,
             programs |-> <<>>,
             result |-> GpuErr("Custom", <<>>, prog.log)]
       ELSE [calls |-> v.calls \o f.calls
                       \o <<<<"create_program", name>>,
                            <<"attach_shader", "VERTEX_SHADER">>,
                            <<"delete_shader", "VERTEX_SHADER">>,
                            <<"attach_shader", "FRAGMENT_SHADER">>,
                            <<"delete_shader", "FRAGMENT_SHADER">>,
                            <<"link_program", name>>>>,
             shaders |-> <<vobj(1, np + 1), fobj(1, np + 1)>>,
             programs |-> <<ProgramObject(IF prog.status
                                          THEN "live" ELSE "none", 0)>>,
             result |-> IF ~prog.status
                        THEN GpuErr("ShaderLinkingFailed", name, prog.log)
                        ELSE GpuOk(np + 1)]

NoCall == [name |-> "", vs |-> CHOOSE a \in ShaderAnswers : a.log = "",
           fs |-> CHOOSE a \in ShaderAnswers : a.log = "",
           prog |-> CHOOSE a \in ProgramAnswers : a.log = "",
           calls |-> <<>>, result |-> NoResult]

GpuInit ==
    /\ gl_shaders = <<>>
    /\ gl_programs = <<>>
    /\ gpu_n = 0
    /\ gpu_last = NoCall

\* GpuProgram::from_source, one call.
from_source ==
    /\ gpu_n < MaxPrograms
    /\ \E name \in ProgramNames, vs \in ShaderAnswers, fs \in ShaderAnswers,
          prog \in ProgramAnswers :
          LET out == FromSource(name, vs, fs, prog, Len(gl_shaders),
                                Len(gl_programs))
          IN /\ gl_shaders' = gl_shaders \o out.shaders
             /\ gl_programs' = gl_programs \o out.programs
             /\ gpu_last' = [name |-> name, vs |-> vs, fs |-> fs,
                             prog |-> prog, calls |-> out.calls,
                             result |-> out.result]
    /\ gpu_n' = gpu_n + 1
    /\ UNCHANGED gpuOthers

\* Drop for GpuProgram: a GpuProgram that is alive goes out of scope.
drop_program ==
    /\ \E id \in 1..Len(gl_programs) :
          /\ gl_programs[id].owner = "live"
          /\ gl_programs' =
                [gl_programs EXCEPT ![id] = DeleteProgram(@)]
    /\ UNCHANGED <<gl_shaders, gpu_n, gpu_last>>
    /\ UNCHANGED gpuOthers

GpuNext ==
    \/ from_source
    \/ drop_program

(***************************************************************************)
(* The constructors of the renderers                                       *)
(***************************************************************************)

\* A fallible step of a constructor: the part it builds, the kind of
\* device object or lookup, and its name.
Step(part, kind, name) == <<part, kind, name>>

\* LumBuffer::new: the texture, then the framebuffer around it.
LumBufferNew(part) ==
    <<Step(part, "texture", "F32"), Step(part, "framebuffer", "color")>>

\* A shader constructor: from_source, then the uniform locations in the
\* order of the struct literal.
ShaderNew(part, uniforms) ==
    <<Step(part, "program", "from_source")>>
    \o [k \in 1..Len(uniforms) |-> Step(part, "uniform", uniforms[k])]

\* HighDynamicRangeRenderer::new.
HdrNewSteps ==
    LumBufferNew("frame_luminance")
    \o LumBufferNew("downscale_chain[0]") \o LumBufferNew("downscale_chain[1]")
    \o LumBufferNew("downscale_chain[2]") \o LumBufferNew("downscale_chain[3]")
    \o LumBufferNew("downscale_chain[4]") \o LumBufferNew("downscale_chain[5]")
    \o <<Step("adaptation_chain", "new", "AdaptationChain"),
         Step("adaptation_shader", "new", "AdaptationShader"),
         Step("luminance_shader", "new", "LuminanceShader")>>
    \o ShaderNew("downscale_shader",
                 <<"worldViewProjection", "lumSampler", "invSize">>)
    \o <<Step("map_shader", "new", "MapShader"),
         Step("stub_lut", "texture", "RGB8")>>

\* UiRenderer::new with UiShader::new.
UiNewSteps ==
    <<Step("geometry_buffer", "geometry_buffer", "build"),
      Step("clipping_geometry_buffer", "geometry_buffer", "build")>>
    \o ShaderNew("shader",
                 <<"worldViewProjection", "diffuseTexture", "isFont",
                   "solidColor", "brushType", "gradientPointCount",
                   "gradientColors", "gradientStops", "gradientOrigin",
                   "gradientEnd", "boundsMin", "boundsMax", "resolution",
                   "opacity">>)

\* PointShadowMapRenderer::new: make_cascade for each of the three
\* cascades builds the depth texture, the cube map and the framebuffer.
MakeCascade(part) ==
    <<Step(part, "texture", "depth"), Step(part, "texture", "cube_map"),
      Step(part, "framebuffer", "depth+color")>>

PointShadowNewSteps ==
    MakeCascade("cascades[0]") \o MakeCascade("cascades[1]")
    \o MakeCascade("cascades[2]")

\* SpriteRenderer::new with SpriteShader::new.
SpriteNewSteps ==
    ShaderNew("shader",
              <<"viewProjectionMatrix", "worldMatrix", "cameraSideVector",
                "cameraUpVector", "size", "diffuseTexture", "color",
                "rotation">>)

Renderers == {"HighDynamicRangeRenderer", "UiRenderer",
              "PointShadowMapRenderer", "SpriteRenderer"}

NewSteps(renderer) ==
    CASE renderer = "HighDynamicRangeRenderer" -> HdrNewSteps
      [] renderer = "UiRenderer" -> UiNewSteps
      [] renderer = "PointShadowMapRenderer" -> PointShadowNewSteps
      [] renderer = "SpriteRenderer" -> SpriteNewSteps
      [] OTHER -> <<>>

\* The ? after a step: whether the step's error leaves the constructor.
\* The mutation lets a missing uniform pass.
Propagates_UniformsOptional(step, failing) ==
    step \in failing /\ step[2] # "uniform"

Propagates(step, failing) == step \in failing

\* The device states a constructor runs against: the steps that fail.
FailingSets(steps) ==
    {{}} \cup {{steps[a], steps[b]} : a, b \in 1..Len(steps)}

NewInit ==
    /\ new_renderer = "None"
    /\ new_failing = {}
    /\ new_done = <<>>
    /\ new_result = [kind |-> "None", error |-> <<>>]

\* A constructor is called, against a device where some steps fail.
new_call ==
    /\ new_renderer = "None"
    /\ \E renderer \in Renderers :
          /\ new_renderer' = renderer
          /\ \E failing \in FailingSets(NewSteps(renderer)) :
                new_failing' = failing
    /\ new_done' = <<>>
    /\ new_result' = [kind |-> "None", error |-> <<>>]
    /\ UNCHANGED newOthers

\* The next step of the constructor: it fails and the error is returned,
\* or the constructor goes on.
new_step ==
    /\ new_renderer # "None"
    /\ new_result.kind = "None"
    /\ Len(new_done) < Len(NewSteps(new_renderer))
    /\ LET step == NewSteps(new_renderer)[Len(new_done) + 1]
       IN /\ new_done' = Append(new_done, step)
          /\ new_result' = IF Propagates(step, new_failing)
                           THEN [kind |-> "Err", error |-> step]
                           ELSE new_result
    /\ UNCHANGED <<new_renderer, new_failing>>
    /\ UNCHANGED newOthers

\* Ok(Self { .. }): every step is done.
new_ok ==
    /\ new_renderer # "None"
    /\ new_result.kind = "None"
    /\ Len(new_done) = Len(NewSteps(new_renderer))
    /\ new_result' = [kind |-> "Ok", error |-> <<>>]
    /\ UNCHANGED <<new_renderer, new_failing, new_done>>
    /\ UNCHANGED newOthers

NewNext ==
    \/ new_call
    \/ new_step
    \/ new_ok

(***************************************************************************)
(* FormattedText::build (src/rg3d-ui/src/formatted_text.rs): the split of  *)
(* the text on lines.  Symbols are codes, advances are whole numbers.      *)
(***************************************************************************)
MaxText == 3

Codes == {"a", " ", "\n"}

WrapModes == {"NoWrap", "Letter", "Word"}

\* constraint.x: narrower than two letters, narrower than three, wider than
\* any text of the model
Constraints == {3, 5, 99}

\* a font with no glyph for the line feed, and one with an empty glyph for it
Fonts ==
    { [glyphs |-> [c \in {"a", " "} |-> IF c = "a" THEN 2 ELSE 1],
       height |-> 4],
      [glyphs |-> [c \in Codes |-> IF c = "a" THEN 2
                                   ELSE IF c = " " THEN 1 ELSE 0],
       height |-> 4] }

Texts == UNION {[1..n -> Codes] : n \in 0..MaxText}

Advance(font, code) ==
    IF code \in DOMAIN font.glyphs THEN font.glyphs[code] ELSE font.height

IsNewLine(code) == code \in {"\n", "\r"}

IsWhiteSpace(code) == code \in {" ", "\n", "\r"}

TextLine(begin, end, width) ==
    [begin |-> begin, end |-> end, width |-> width]

Word(width, length) == [width |-> width, length |-> length]

\* The body of the loop over the symbols for symbol i (from 0): the pending
\* word, the current line and the lines after it, or a panic.  An Option is
\* a sequence of at most one element.
WordAfterSymbol(w, wrap, is_white_space, advance) ==
    IF wrap = "Word" /\ ~is_white_space
    THEN IF w # <<>>
         THEN <<Word(w[1].width + advance, w[1].length + 1)>>
         ELSE <<Word(advance, 1)>>
    ELSE w

PassWhiteSpace(line, is_white_space, advance) ==
    IF is_white_space
    THEN TextLine(line.begin, line.end + 1, line.width + advance)
    ELSE line

BuildSymbol(in, i, line, w0, ls) ==
    LET code == in.text[i + 1]
        advance == Advance(in.font, code)
        is_new_line == IsNewLine(code)
        new_width == line.width + advance
        is_white_space == IsWhiteSpace(code)
        word_ended == (w0 # <<>> /\ is_white_space) \/ i = Len(in.text) - 1
        w == WordAfterSymbol(w0, in.wrap, is_white_space, advance)
        Result(l, wd, lns) ==
            [current_line |-> l, word |-> wd, lines |-> lns, panic |-> FALSE]
    IN  IF is_new_line
        THEN LET taken == IF w # <<>>
                          THEN TextLine(line.begin, line.end + w[1].length,
                                        line.width + w[1].width)
                          ELSE line
             IN  Result(TextLine(i + 1, i + 1, advance), <<>>,
                        Append(ls, taken))
        ELSE CASE in.wrap = "NoWrap" ->
                    Result(TextLine(line.begin, line.end + 1, new_width),
                           w, ls)
               [] in.wrap = "Letter" ->
                    IF new_width > in.constraint
                    THEN Result(TextLine(i, i + 1, advance), w,
                                Append(ls, line))
                    ELSE Result(TextLine(line.begin, line.end + 1, new_width),
                                w, ls)
               [] in.wrap = "Word" ->
                    IF ~word_ended
                    THEN Result(PassWhiteSpace(line, is_white_space, advance),
                                w, ls)
                    ELSE IF w = <<>>
                    THEN [current_line |-> line, word |-> w, lines |-> ls,
                          panic |-> TRUE]
                    ELSE IF w[1].width > in.constraint
                    THEN Result(PassWhiteSpace(
                                    TextLine(line.end + w[1].length,
                                             line.end + w[1].length, 0),
                                    is_white_space, advance),
                                <<>>,
                                Append(ls, TextLine(line.begin,
                                                    line.end + w[1].length,
                                                    line.width + w[1].width)))
                    ELSE IF line.width + w[1].width > in.constraint
                    THEN Result(PassWhiteSpace(
                                    TextLine(i - w[1].length, i, w[1].width),
                                    is_white_space, advance),
                                <<>>, Append(ls, line))
                    ELSE Result(PassWhiteSpace(
                                    TextLine(line.begin,
                                             line.end + w[1].length,
                                             line.width + w[1].width),
                                    is_white_space, advance),
                                <<>>, ls)

RECURSIVE SumAdvances(_, _, _, _)
SumAdvances(font, text, from, to) ==
    IF from >= to \/ from >= Len(text) THEN 0
    ELSE Advance(font, text[from + 1]) + SumAdvances(font, text, from + 1, to)

\* "Commit rest of text"
CommitRest(in, line, ls) ==
    IF line.begin # line.end
    THEN Append(ls, TextLine(line.begin, Len(in.text),
                             line.width + SumAdvances(in.font, in.text,
                                                      line.end, Len(in.text))))
    ELSE ls

TextStart(in) ==
    /\ text_in = in
    /\ text_pc = "Loop"
    /\ text_i = 0
    /\ current_line = TextLine(0, 0, 0)
    /\ word = <<>>
    /\ lines = <<>>

TextInit ==
    \E in \in [text : Texts, wrap : WrapModes,
               constraint : Constraints, font : Fonts] : TextStart(in)

build_symbol ==
    /\ text_pc = "Loop"
    /\ text_i < Len(text_in.text)
    /\ LET r == BuildSymbol(text_in, text_i, current_line, word, lines)
       IN  /\ current_line' = r.current_line
           /\ word' = r.word
           /\ lines' = r.lines
           /\ text_pc' = IF r.panic THEN "Panicked" ELSE "Loop"
           /\ text_i' = IF r.panic THEN text_i ELSE text_i + 1
    /\ UNCHANGED text_in
    /\ UNCHANGED textOthers

build_commit ==
    /\ text_pc = "Loop"
    /\ text_i = Len(text_in.text)
    /\ lines' = CommitRest(text_in, current_line, lines)
    /\ text_pc' = "Built"
    /\ UNCHANGED <<text_in, text_i, current_line, word>>
    /\ UNCHANGED textOthers

TextNext == build_symbol \/ build_commit

TextQuiet ==
    TextStart([text |-> <<>>, wrap |-> "NoWrap", constraint |-> 99,
               font |-> CHOOSE f \in Fonts : DOMAIN f.glyphs = Codes])

(***************************************************************************)
(* Model::instantiate (src/src/resource/model.rs).  A handle is the index  *)
(* of a node in its scene's pool, 0 being Handle::NONE.  Scene::copy_node  *)
(* is not part of the sources at hand: it is taken to copy the subtree of  *)
(* the given node to the end of the destination pool, children relinked,   *)
(* bones as they were, the original handle recorded, and to record every   *)
(* pair of old and new handle in the mapping.                              *)
(***************************************************************************)
MaxAnimations == 2

Node(kind, children, surfaces, resource, original) ==
    [kind |-> kind, children |-> children, surfaces |-> surfaces,
     resource |-> resource, original |-> original]

BaseNode(children) == Node("Base", children, <<>>, "None", 0)

MeshNode(children, surfaces) == Node("Mesh", children, surfaces, "None", 0)

\* The node trees of the model resources: a root with a skinned mesh and
\* its bone, a single mesh that is its own bone, and a chain whose mesh
\* names a bone that is not a node of the scene (9).
SourceNodes ==
    { <<BaseNode(<<2, 3>>), MeshNode(<<>>, << <<3, 0>>, <<3>> >>),
        BaseNode(<<>>)>>,
      <<MeshNode(<<>>, << <<1>> >>)>>,
      <<BaseNode(<<2>>), BaseNode(<<3>>), MeshNode(<<>>, << <<2, 9>> >>)>> }

\* An animation is the sequence of the nodes of its tracks.
Animations == {<<2>>, <<1, 3>>}

AnimationLists == UNION {[1..n -> Animations] : n \in 0..MaxAnimations}

SourceScenes ==
    [nodes : SourceNodes, root : {1}, animations : AnimationLists]

\* Destination scenes: a root alone, and a root with an earlier instance of
\* node 2 of another model.
DestScenes ==
    { [nodes |-> <<BaseNode(<<>>)>>, animations |-> <<>>],
      [nodes |-> <<BaseNode(<<2>>), Node("Base", <<>>, <<>>, "other", 2)>>,
       animations |-> << <<2>> >>] }

ResourceKinds == {"Model", "Texture"}

RECURSIVE SubTree(_, _, _)
SubTree(nodes, handle, depth) ==
    IF depth = 0 \/ handle \notin DOMAIN nodes THEN {}
    ELSE {handle} \cup
         UNION {SubTree(nodes, nodes[handle].children[c], depth - 1) :
                   c \in DOMAIN nodes[handle].children}

\* copy_node: the old-to-new mapping it fills, the nodes it appends and
\* the handle it returns.
CopyMapping(scene, handle, dest) ==
    LET olds == SubTree(scene.nodes, handle, Len(scene.nodes))
        Rank(h) == Cardinality({o \in olds : o <= h})
    IN  [h \in olds |-> Len(dest.nodes) + Rank(h)]

CopyNode(scene, handle, dest) ==
    LET mapping == CopyMapping(scene, handle, dest)
        n == Cardinality(DOMAIN mapping)
        Old(k) == CHOOSE h \in DOMAIN mapping : mapping[h] = k
        Copy(h) ==
            Node(scene.nodes[h].kind,
                 [c \in DOMAIN scene.nodes[h].children |->
                     mapping[scene.nodes[h].children[c]]],
                 scene.nodes[h].surfaces, scene.nodes[h].resource, h)
    IN  [nodes |-> dest.nodes \o
                      [k \in 1..n |-> Copy(Old(Len(dest.nodes) + k))],
         animations |-> dest.animations]

\* "Remap bones": an occupied entry of the mapping replaces the handle.
RemapBone_Keep(mapping, bone_handle) == bone_handle

RemapBone(mapping, bone_handle) ==
    IF bone_handle \in DOMAIN mapping THEN mapping[bone_handle]
    ELSE bone_handle

RemapSurfaces(mapping, node) ==
    IF node.kind = "Mesh"
    THEN [s \in DOMAIN node.surfaces |->
             [b \in DOMAIN node.surfaces[s] |->
                 RemapBone(mapping, node.surfaces[s][b])]]
    ELSE node.surfaces

\* "Remap animation track nodes": every node of the destination whose
\* original handle is the track's node is assigned in turn, the last stays.
RemapTrack(nodes, track_node) ==
    LET found == {k \in DOMAIN nodes : nodes[k].original = track_node}
    IN  IF found = {} THEN track_node
        ELSE CHOOSE k \in found : \A j \in found : j <= k

InstantiateStart(in) ==
    /\ inst_in = in
    /\ dest_scene = in.dest
    /\ old_new_mapping = <<>>
    /\ stack = <<>>
    /\ inst_result = [kind |-> "None", root |-> 0]
    /\ inst_pc = "Idle"
    /\ anim_i = 0

InstantiateInit ==
    \E in \in [kind : ResourceKinds, scene : SourceScenes,
               dest : DestScenes] : InstantiateStart(in)

\* a resource that is not a model: Err(())
instantiate_err ==
    /\ inst_pc = "Idle"
    /\ inst_in.kind # "Model"
    /\ inst_result' = [kind |-> "Err", root |-> 0]
    /\ inst_pc' = "Returned"
    /\ UNCHANGED <<inst_in, dest_scene, old_new_mapping, stack, anim_i>>
    /\ UNCHANGED instOthers

\* copy_node and stack.push(root)
instantiate_copy ==
    /\ inst_pc = "Idle"
    /\ inst_in.kind = "Model"
    /\ LET mapping == CopyMapping(inst_in.scene, inst_in.scene.root,
                                  dest_scene)
       IN  /\ old_new_mapping' = mapping
           /\ dest_scene' = CopyNode(inst_in.scene, inst_in.scene.root,
                                     dest_scene)
           /\ stack' = <<mapping[inst_in.scene.root]>>
    /\ inst_pc' = "Nodes"
    /\ UNCHANGED <<inst_in, inst_result, anim_i>>
    /\ UNCHANGED instOthers

\* one turn of "while let Some(node_handle) = stack.pop()"
instantiate_node ==
    /\ inst_pc = "Nodes"
    /\ stack # <<>>
    /\ LET node_handle == stack[Len(stack)]
           rest == SubSeq(stack, 1, Len(stack) - 1)
       IN  IF node_handle \in DOMAIN dest_scene.nodes
           THEN LET node == dest_scene.nodes[node_handle]
                IN  /\ dest_scene' =
                          [dest_scene EXCEPT !.nodes[node_handle] =
                              Node(node.kind, node.children,
                                   RemapSurfaces(old_new_mapping, node),
                                   "source", node.original)]
                    /\ stack' = rest \o node.children
           ELSE /\ stack' = rest
                /\ UNCHANGED dest_scene
    /\ UNCHANGED <<inst_in, old_new_mapping, inst_result, inst_pc, anim_i>>
    /\ UNCHANGED instOthers

\* one turn of the loop over the animations of the model
instantiate_animation ==
    /\ inst_pc = "Nodes"
    /\ stack = <<>>
    /\ anim_i < Len(inst_in.scene.animations)
    /\ LET ref_anim == inst_in.scene.animations[anim_i + 1]
           anim_copy == [i \in DOMAIN ref_anim |->
                            RemapTrack(dest_scene.nodes, ref_anim[i])]
       IN  dest_scene' = [dest_scene EXCEPT
                             !.animations = Append(@, anim_copy)]
    /\ anim_i' = anim_i + 1
    /\ UNCHANGED <<inst_in, old_new_mapping, stack, inst_result, inst_pc>>
    /\ UNCHANGED instOthers

\* return Ok(root)
instantiate_ok ==
    /\ inst_pc = "Nodes"
    /\ stack = <<>>
    /\ anim_i = Len(inst_in.scene.animations)
    /\ inst_result' = [kind |-> "Ok",
                       root |-> old_new_mapping[inst_in.scene.root]]
    /\ inst_pc' = "Returned"
    /\ UNCHANGED <<inst_in, dest_scene, old_new_mapping, stack, anim_i>>
    /\ UNCHANGED instOthers

InstantiateNext ==
    \/ instantiate_err
    \/ instantiate_copy
    \/ instantiate_node
    \/ instantiate_animation
    \/ instantiate_ok

InstQuiet ==
    InstantiateStart(
        [kind |-> "Texture",
         scene |-> [nodes |-> <<MeshNode(<<>>, << <<1>> >>)>>, root |-> 1,
                    animations |-> <<>>],
         dest |-> [nodes |-> <<BaseNode(<<>>)>>, animations |-> <<>>]])

(***************************************************************************)
(* ColliderDesc (src/src/scene/physics/desc.rs): the interaction groups    *)
(* and the sensor flag of a collider on the way to its descriptor and      *)
(* back.  The builder is taken to build the collider it was given.         *)
(***************************************************************************)
\* u32 bit masks: none, two single groups, both, the low 31 groups
GroupBits == {0, 1, 2, 3, 2147483647}

\* InteractionGroups::new
InteractionGroups(memberships, filter) ==
    [memberships |-> memberships, filter |-> filter]

\* impl From<InteractionGroups> for InteractionGroupsDesc
InteractionGroupsDesc(g) ==
    [memberships |-> g.memberships, filter |-> g.filter]

AllGroups ==
    {InteractionGroups(m, f) : m \in GroupBits, f \in GroupBits}

Colliders ==
    [collision_groups : AllGroups, solver_groups : AllGroups,
     is_sensor : BOOLEAN]

NoCollider == [is_sensor |-> FALSE]

FromCollider(c) ==
    [is_sensor |-> c.is_sensor,
     collision_groups |-> InteractionGroupsDesc(c.collision_groups),
     solver_groups |-> InteractionGroupsDesc(c.solver_groups)]

ConvertToCollider(desc) ==
    [solver_groups |-> InteractionGroups(desc.solver_groups.memberships,
                                         desc.solver_groups.filter),
     collision_groups |->
         InteractionGroups(desc.collision_groups.memberships,
                           desc.collision_groups.memberships),
     is_sensor |-> desc.is_sensor]

ColliderStart(c) ==
    /\ collider = c
    /\ collider_desc = NoCollider
    /\ rebuilt = NoCollider
    /\ desc_pc = "Collider"

ColliderInit == \E c \in Colliders : ColliderStart(c)

from_collider ==
    /\ desc_pc = "Collider"
    /\ collider_desc' = FromCollider(collider)
    /\ desc_pc' = "Desc"
    /\ UNCHANGED <<collider, rebuilt>>
    /\ UNCHANGED descOthers

convert_to_collider ==
    /\ desc_pc = "Desc"
    /\ rebuilt' = ConvertToCollider(collider_desc)
    /\ desc_pc' = "Rebuilt"
    /\ UNCHANGED <<collider, collider_desc>>
    /\ UNCHANGED descOthers

ColliderNext == from_collider \/ convert_to_collider

DescQuiet ==
    ColliderStart([collision_groups |-> InteractionGroups(1, 1),
                   solver_groups |-> InteractionGroups(1, 1),
                   is_sensor |-> FALSE])

(***************************************************************************)
(* The specifications: one per pass, the other passes at rest.             *)
(***************************************************************************)
HdrQuiet ==
    /\ HdrInit
    /\ \A k \in {0, 1} : adaptation_chain.lum_framebuffers[k].value = 0

ShadowQuiet == ShadowInit

UiQuiet == UiInit

GpuQuiet == GpuInit

NewQuiet == NewInit

InitHdr ==
    /\ HdrInit
    /\ ShadowQuiet /\ UiQuiet /\ GpuQuiet /\ NewQuiet
    /\ TextQuiet /\ InstQuiet /\ DescQuiet

InitShadow ==
    /\ ShadowInit
    /\ HdrQuiet /\ UiQuiet /\ GpuQuiet /\ NewQuiet
    /\ TextQuiet /\ InstQuiet /\ DescQuiet

InitUi ==
    /\ UiInit
    /\ HdrQuiet /\ ShadowQuiet /\ GpuQuiet /\ NewQuiet
    /\ TextQuiet /\ InstQuiet /\ DescQuiet

InitGpu ==
    /\ GpuInit
    /\ HdrQuiet /\ ShadowQuiet /\ UiQuiet /\ NewQuiet
    /\ TextQuiet /\ InstQuiet /\ DescQuiet

InitNew ==
    /\ NewInit
    /\ HdrQuiet /\ ShadowQuiet /\ UiQuiet /\ GpuQuiet
    /\ TextQuiet /\ InstQuiet /\ DescQuiet

InitText ==
    /\ TextInit
    /\ HdrQuiet /\ ShadowQuiet /\ UiQuiet /\ GpuQuiet
    /\ NewQuiet /\ InstQuiet /\ DescQuiet

InitInst ==
    /\ InstantiateInit
    /\ HdrQuiet /\ ShadowQuiet /\ UiQuiet /\ GpuQuiet
    /\ NewQuiet /\ TextQuiet /\ DescQuiet

InitDesc ==
    /\ ColliderInit
    /\ HdrQuiet /\ ShadowQuiet /\ UiQuiet /\ GpuQuiet
    /\ NewQuiet /\ TextQuiet /\ InstQuiet

SpecHdr == InitHdr /\ [][HdrNext]_vars

SpecGpu == InitGpu /\ [][GpuNext]_vars

SpecNew == InitNew /\ [][NewNext]_vars

\* The three passes under one specification: a behaviour follows one pass,
\* the other two staying at rest.
InitPasses ==
    /\ HdrQuiet /\ ShadowInit /\ UiInit
    /\ GpuQuiet /\ NewQuiet /\ TextQuiet /\ InstQuiet /\ DescQuiet

HdrAtRest == hdr_stage = "Idle" /\ hdr_frame = 0

hdr_pass == shadow_pc = "Idle" /\ ui_pc = "Idle" /\ HdrNext

shadow_pass == HdrAtRest /\ ui_pc = "Idle" /\ ShadowNext

ui_pass == HdrAtRest /\ shadow_pc = "Idle" /\ UiNext

PassesNext ==
    \/ hdr_pass
    \/ shadow_pass
    \/ ui_pass

SpecPasses == InitPasses /\ [][PassesNext]_vars

SpecShadow == InitShadow /\ [][ShadowNext]_vars

SpecUi == InitUi /\ [][UiNext]_vars

SpecDesc == InitDesc /\ [][ColliderNext]_vars

SpecInst == InitInst /\ [][InstantiateNext]_vars

SpecText == InitText /\ [][TextNext]_vars


(***************************************************************************)
(* Properties of the HDR renderer.                                         *)
(***************************************************************************)

\* The stages of the draws of one complete render() call, in order.
ExpectedStages ==
    <<"ComputeFrameLuminance">>
    \o [i \in 1..Len(DownscaleSizes) |-> "DownscaleChain"]
    \o <<"Adapt", "ToneMap">>

\* The texture a draw bound to a sampler.
Bound(draw, sampler) == {b[2] : b \in {x \in draw.samplers : x[1] = sampler}}

DrawsOf(stage) == {k \in 1..Len(hdr_draws) : hdr_draws[k].stage = stage}

\* C1: every render() call runs ComputeFrameLuminance (into the 64x64
\* buffer), DownscaleChain, Adapt, ToneMap (into the LDR framebuffer) once
\* each and in that order: the draws issued so far are always a prefix of
\* that sequence, a stage starts only when the earlier ones have issued all
\* their draws, and a returned call has issued all of them.
C1_StageOrder ==
    /\ Len(hdr_draws) <= Len(ExpectedStages)
    /\ \A k \in 1..Len(hdr_draws) : hdr_draws[k].stage = ExpectedStages[k]
    /\ \A k \in DrawsOf("ComputeFrameLuminance") :
          /\ hdr_draws[k].target = TexFrameLuminance
          /\ hdr_draws[k].lum_size = 64
    /\ \A k \in DrawsOf("ToneMap") : hdr_draws[k].target = TexLdrFramebuffer
    /\ hdr_stage = "ComputeFrameLuminance" => Len(hdr_draws) = 0
    /\ hdr_stage = "DownscaleChain" => Len(hdr_draws) = down_i
    /\ hdr_stage = "Adapt" => Len(hdr_draws) = 1 + Len(DownscaleSizes)
    /\ hdr_stage = "ToneMap" => Len(hdr_draws) = 2 + Len(DownscaleSizes)
    /\ (hdr_stage = "Idle" /\ hdr_frame > 0) =>
          Len(hdr_draws) = Len(ExpectedStages)
    /\ hdr_stage \in {"Idle", "ComputeFrameLuminance", "DownscaleChain",
                      "Adapt", "ToneMap"}

C1_Witness ==
    /\ hdr_stage = "Idle"
    /\ hdr_frame = MaxFrames
    /\ Len(hdr_draws) = Len(ExpectedStages)
    /\ hdr_draws[Len(hdr_draws)].stage = "ToneMap"

StrictlyBetween(x, a, b) == (a < x /\ x < b) \/ (b < x /\ x < a)

\* C2: for all instant luminances L and previous adapted values P with
\* P # L and every frame time dt, the adaptation step run with the speed
\* 0.3 * dt produces a value strictly between P and L.
C2_AdaptStrictlyBetween ==
    (hdr_adapt.frame > 0 /\ hdr_adapt.old_val # hdr_adapt.new_val) =>
        StrictlyBetween(hdr_adapt.out, hdr_adapt.old_val, hdr_adapt.new_val)

\* C3: the Adapt stage never reads and writes the same buffer of the
\* ping-pong pair; the ToneMap stage of a frame samples the buffer Adapt
\* wrote in that frame; that buffer is the one read as "previous" by the
\* next frame's Adapt; and the adaptation buffers change only in the Adapt
\* stage, where the written buffer receives the blend of the other
\* buffer's value towards the instant luminance and the other buffer is
\* left as it was.
C3_State ==
    /\ \A k \in DrawsOf("Adapt") :
          /\ hdr_draws[k].target \notin Bound(hdr_draws[k], "oldLumSampler")
          /\ hdr_draws[k].target \notin Bound(hdr_draws[k], "newLumSampler")
          /\ hdr_draws[k].target[1] = "adaptation_chain"
          /\ Bound(hdr_draws[k], "oldLumSampler") =
                {TexAdaptation(1 - hdr_draws[k].target[2])}
          /\ adaptation_chain.lum_framebuffers[hdr_draws[k].target[2]].frame
                = hdr_frame
    /\ \A k \in DrawsOf("ToneMap") : \A j \in DrawsOf("Adapt") :
          Bound(hdr_draws[k], "lumSampler") = {hdr_draws[j].target}

C3_Step ==
    /\ (hdr_adapt' # hdr_adapt /\ hdr_adapt.frame > 0) =>
          hdr_adapt'.prev_lum = TexAdaptation(hdr_adapt.lum_buffer)
    /\ adaptation_chain' # adaptation_chain =>
          /\ hdr_stage = "Adapt"
          /\ LET w == hdr_adapt'.lum_buffer
                 r == 1 - w
             IN /\ adaptation_chain'.lum_framebuffers[r] =
                      adaptation_chain.lum_framebuffers[r]
                /\ adaptation_chain'.lum_framebuffers[w].value =
                      AdaptationShader(
                          adaptation_chain.lum_framebuffers[r].value,
                          downscale_chain[Len(downscale_chain)].value,
                          hdr_adapt'.speed)

C3_PingPong == [](C3_State) /\ [][C3_Step]_vars

C3_Witness ==
    /\ hdr_stage = "Idle"
    /\ hdr_frame = MaxFrames
    /\ hdr_adapt.frame = MaxFrames
    /\ hdr_adapt.out # hdr_adapt.old_val
    /\ hdr_adapt.out # hdr_adapt.new_val
    /\ DrawsOf("ToneMap") # {}

\* C4: the luminance chain is the 64x64 frame-luminance buffer followed by
\* buffers of sizes 32, 16, 8, 4, 2, 1, each half the previous; the
\* DownscaleChain stage renders every chain buffer once, in decreasing-size
\* order, sampling the buffer just before it (the first samples the frame
\* luminance written in the same frame); and Adapt takes the terminal 1x1
\* buffer, which then holds this frame's luminance, as the instant
\* luminance.
C4_LuminanceChain ==
    /\ frame_luminance.size = 64
    /\ Len(downscale_chain) = 6
    /\ \A i \in 1..Len(downscale_chain) :
          2 * downscale_chain[i].size =
              (IF i = 1 THEN frame_luminance.size
                        ELSE downscale_chain[i - 1].size)
    /\ downscale_chain[Len(downscale_chain)].size = 1
    /\ \A k \in DrawsOf("DownscaleChain") :
          LET i == k - 1
          IN /\ i \in 1..Len(downscale_chain)
             /\ hdr_draws[k].target = TexDownscale(i)
             /\ hdr_draws[k].lum_size = downscale_chain[i].size
             /\ Bound(hdr_draws[k], "lumSampler") =
                   {IF i = 1 THEN TexFrameLuminance ELSE TexDownscale(i - 1)}
             /\ downscale_chain[i].frame = hdr_frame
             /\ frame_luminance.frame = hdr_frame
    /\ hdr_stage \in {"Adapt", "ToneMap"} =>
          Cardinality(DrawsOf("DownscaleChain")) = Len(downscale_chain)
    /\ \A k \in DrawsOf("Adapt") :
          /\ Bound(hdr_draws[k], "newLumSampler") =
                {TexDownscale(Len(downscale_chain))}
          /\ hdr_adapt.new_lum = TexDownscale(Len(downscale_chain))
          /\ downscale_chain[Len(downscale_chain)].frame = hdr_frame

C4_Witness ==
    /\ hdr_stage = "ToneMap"
    /\ hdr_frame = MaxFrames
    /\ hdr_in.scene_lum > 0
    /\ hdr_adapt.frame = hdr_frame
    /\ hdr_adapt.new_val # hdr_adapt.old_val
    /\ Cardinality(DrawsOf("DownscaleChain")) = 6

\* C5 as stated: in the ToneMap stage the identity stub is bound whenever
\* no LUT is supplied or color grading is disabled, and the real LUT only
\* when a LUT is supplied and color grading is enabled.
C5_StubWhenDisabled ==
    \A k \in DrawsOf("ToneMap") :
        /\ (~hdr_in.color_grading_lut \/ ~hdr_in.use_color_grading) =>
              Bound(hdr_draws[k], "colorMapSampler") = {TexStubLut}
        /\ Bound(hdr_draws[k], "colorMapSampler") = {TexColorGradingLut} =>
              (hdr_in.color_grading_lut /\ hdr_in.use_color_grading)

\* C5 amended: in the ToneMap stage the identity stub is bound whenever no
\* LUT is supplied or the texture cache cannot resolve the supplied LUT,
\* and the real LUT texture is bound exactly when a LUT is supplied and
\* resolved, whether or not color grading is enabled; disabling color
\* grading only clears the use_color_grading flag, which is set exactly
\* when a LUT is supplied and color grading is enabled.
C5_StubWhenUnresolved ==
    \A k \in DrawsOf("ToneMap") :
        /\ (~hdr_in.color_grading_lut \/ ~hdr_in.lut_in_cache) =>
              Bound(hdr_draws[k], "colorMapSampler") = {TexStubLut}
        /\ (hdr_in.color_grading_lut /\ hdr_in.lut_in_cache) =>
              Bound(hdr_draws[k], "colorMapSampler") = {TexColorGradingLut}
        /\ hdr_draws[k].use_color_grading =
              (hdr_in.color_grading_lut /\ hdr_in.use_color_grading)

C5_Witness ==
    /\ DrawsOf("ToneMap") # {}
    /\ hdr_in.color_grading_lut
    /\ hdr_in.lut_in_cache
    /\ ~hdr_in.use_color_grading
    /\ \A k \in DrawsOf("ToneMap") :
          /\ Bound(hdr_draws[k], "colorMapSampler") = {TexColorGradingLut}
          /\ ~hdr_draws[k].use_color_grading

(***************************************************************************)
(* Properties of the point shadow renderer.                                *)
(***************************************************************************)

ShadowDraws == {k \in 1..Len(shadow_log) : shadow_log[k].op = "draw"}

ShadowClears == {k \in 1..Len(shadow_log) : shadow_log[k].op = "clear"}

\* Instance i of batch b was drawn on face f.
Drawn(f, b, i) ==
    \E k \in ShadowDraws :
        /\ shadow_log[k].face_i = f
        /\ shadow_log[k].batch = b
        /\ shadow_log[k].instance = i

\* The pass has run the loop body of batch b for face f.
Processed(f, b) ==
    \/ shadow_pc = "Returned"
    \/ /\ shadow_pc \in {"Face", "Batch"}
       /\ \/ face_i > f
          \/ face_i = f /\ shadow_pc = "Batch" /\ batch_i > b

Owner(b, i) == graph[batch_storage[b].instances[i]]

Instances(b) == 1..Len(batch_storage[b].instances)

FaceIndices == 1..Len(faces)

BatchIndices == 1..Len(batch_storage)

\* The node's "casts shadows" flag is false (only a mesh carries the flag).
CastsNoShadows(node) == node.kind = "Mesh" /\ ~node.cast_shadows

\* C6: for every batch and every one of the 6 cube faces, an instance
\* whose owning node has "casts shadows" = false is never drawn, and the
\* draw statistics count the issued draws only, so that it adds nothing to
\* them.
C6_NoShadowNeverDrawn ==
    /\ \A k \in ShadowDraws :
          ~CastsNoShadows(Owner(shadow_log[k].batch, shadow_log[k].instance))
    /\ shadow_stats = Cardinality(ShadowDraws)

C6_Witness ==
    /\ shadow_pc = "Returned"
    /\ \E b \in BatchIndices :
          /\ batch_storage[b].shader = "PointShadow"
          /\ \E i \in Instances(b) :
                /\ CastsNoShadows(Owner(b, i))
                /\ Owner(b, i).global_visibility
                /\ Owner(b, i).in_frustum = FaceNames
          /\ \E j \in Instances(b) : Drawn(1, b, j)

\* The rule of the claim C7 for one instance and one face: the owning node
\* is globally visible and is either a mesh that casts shadows and
\* intersects the face's frustum, or a terrain.
ShouldDraw(node, f) ==
    /\ node.global_visibility
    /\ \/ /\ node.kind = "Mesh"
          /\ node.cast_shadows
          /\ faces[f].face \in node.in_frustum
       \/ node.kind = "Terrain"

\* C7 as stated: an instance is drawn on a cube face if and only if its
\* owning node is globally visible and is a mesh that casts shadows and
\* intersects the face's frustum, or a terrain (no frustum test).
C7_DrawnIffVisible ==
    \A f \in FaceIndices : \A b \in BatchIndices :
        Processed(f, b) =>
            \A i \in Instances(b) : Drawn(f, b, i) <=> ShouldDraw(Owner(b, i), f)

\* C7 amended: an instance of a batch whose material's shader set is
\* resolved and has a "PointShadow" variant is drawn on a cube face if and
\* only if its owning node is globally visible and is a mesh that casts
\* shadows and intersects the face's frustum, or a terrain (no frustum
\* test); an instance of any other batch is never drawn.
C7_DrawnIffVisibleWithProgram ==
    \A f \in FaceIndices : \A b \in BatchIndices :
        Processed(f, b) =>
            \A i \in Instances(b) :
                Drawn(f, b, i) <=>
                    (batch_storage[b].shader = "PointShadow"
                        /\ ShouldDraw(Owner(b, i), f))

C7_Witness ==
    /\ shadow_pc = "Returned"
    /\ \E b \in BatchIndices : \E i \in Instances(b) :
          /\ Owner(b, i).kind = "Terrain"
          /\ \A f \in FaceIndices : Drawn(f, b, i)
    /\ \E b \in BatchIndices : \E i \in Instances(b) :
          /\ Owner(b, i).kind = "Mesh"
          /\ \E f \in FaceIndices : Drawn(f, b, i)
          /\ \E f \in FaceIndices : ~Drawn(f, b, i)

Axes == {<<1, 0, 0>>, <<-1, 0, 0>>, <<0, 1, 0>>, <<0, -1, 0>>,
         <<0, 0, 1>>, <<0, 0, -1>>}

AxisName(v) ==
    CASE v = <<1, 0, 0>> -> "PositiveX"
      [] v = <<-1, 0, 0>> -> "NegativeX"
      [] v = <<0, 1, 0>> -> "PositiveY"
      [] v = <<0, -1, 0>> -> "NegativeY"
      [] v = <<0, 0, 1>> -> "PositiveZ"
      [] v = <<0, 0, -1>> -> "NegativeZ"

Orthonormal(look, up) ==
    LET side == Cross(look, up)
    IN /\ Dot(look, look) = 1
       /\ Dot(up, up) = 1
       /\ Dot(look, up) = 0
       /\ Dot(side, side) = 1
       /\ Dot(side, look) = 0
       /\ Dot(side, up) = 0

\* C8: for each of the 6 cube faces the look and up vectors are unit
\* length and orthogonal (look, up and their cross product are pairwise
\* orthonormal), in the table and in every view the pass builds; the 6
\* look directions are exactly +X, -X, +Y, -Y, +Z, -Z, each paired with
\* the cube-map face of the same name and each used once.
C8_FaceBasisOrthonormal ==
    /\ Len(faces) = 6
    /\ \A f \in FaceIndices :
          /\ Orthonormal(faces[f].look, faces[f].up)
          /\ faces[f].look \in Axes
          /\ faces[f].face = AxisName(faces[f].look)
    /\ {faces[f].look : f \in FaceIndices} = Axes
    /\ \A f, g \in FaceIndices : faces[f].look = faces[g].look => f = g
    /\ \A k \in ShadowClears :
          /\ Orthonormal(shadow_log[k].look, shadow_log[k].up)
          /\ shadow_log[k].face = AxisName(shadow_log[k].look)
    /\ \A j, k \in ShadowClears :
          shadow_log[j].look = shadow_log[k].look => j = k

C8_Witness ==
    /\ shadow_pc = "Returned"
    /\ {shadow_log[k].look : k \in ShadowClears} = Axes
    /\ ShadowDraws # {}

\* C9: a batch whose material's shader set has no "PointShadow" variant, or
\* cannot be resolved from the shader cache, produces no draw call on any
\* of the 6 faces; the pass goes on: the instances of the other batches
\* that are to be drawn are drawn on every face, all 6 faces are rendered
\* and render returns the statistics of the draws issued.
C9_NoProgramBatchSkipped ==
    /\ \A f \in FaceIndices : \A b \in BatchIndices :
          Processed(f, b) =>
              IF batch_storage[b].shader \in {"NoPointShadow", "Unresolved"}
              THEN \A i \in Instances(b) : ~Drawn(f, b, i)
              ELSE \A i \in Instances(b) :
                      ShouldDraw(Owner(b, i), f) => Drawn(f, b, i)
    /\ shadow_pc \in {"Idle", "Face", "Batch", "Returned"}
    /\ shadow_pc = "Returned" =>
          /\ Cardinality(ShadowClears) = Len(faces)
          /\ shadow_stats = Cardinality(ShadowDraws)

C9_Witness ==
    /\ shadow_pc = "Returned"
    /\ \E b \in BatchIndices : \E c \in BatchIndices :
          /\ b < c
          /\ batch_storage[b].shader = "NoPointShadow"
          /\ \E i \in Instances(b) : ShouldDraw(Owner(b, i), 1)
          /\ batch_storage[c].shader = "PointShadow"
          /\ \A f \in FaceIndices : \E i \in Instances(c) : Drawn(f, c, i)
    /\ shadow_stats = Len(faces)

(***************************************************************************)
(* Properties of the UI renderer.                                          *)
(***************************************************************************)

UiDraws == {k \in 1..Len(ui_log) : IsDraw(ui_log[k].op)}

UiOpsOf(c, op) ==
    {k \in 1..Len(ui_log) : ui_log[k].cmd = c /\ ui_log[k].op = op}

\* C10: render processes the display list strictly in submission order:
\* every operation of command i (scissor and stencil changes, its clip
\* pass, its content draw) is issued before any operation of a command
\* j > i; the first draw after a command's clip pass is that command's own
\* content draw; a command issues at most one clip pass and one content
\* draw, the clip pass first; and every command the loop has passed has
\* issued its content draw.
C10_SubmissionOrder ==
    /\ \A j, k \in 1..Len(ui_log) : j < k => ui_log[j].cmd <= ui_log[k].cmd
    /\ \A k, m \in UiDraws :
          (/\ k < m
           /\ ui_log[k].op = "draw_clip"
           /\ \A n \in UiDraws : ~(k < n /\ n < m))
          => (ui_log[m].op = "draw_content" /\ ui_log[m].cmd = ui_log[k].cmd)
    /\ \A c \in 1..ui_commands :
          /\ Cardinality(UiOpsOf(c, "draw_clip")) <= 1
          /\ Cardinality(UiOpsOf(c, "draw_content")) <= 1
          /\ \A k \in UiOpsOf(c, "draw_clip") :
                \A m \in UiOpsOf(c, "draw_content") : k < m
          /\ (ui_pc \in {"Loop", "ReturnedOk"} /\ c < ui_i) =>
                Cardinality(UiOpsOf(c, "draw_content")) = 1
          /\ (ui_pc \in {"Loop", "ReturnedOk"} /\ c >= ui_i) =>
                \A k \in 1..Len(ui_log) : ui_log[k].cmd # c

C10_Witness ==
    /\ ui_pc = "ReturnedOk"
    /\ ui_commands = MaxCommands
    /\ UiOpsOf(1, "draw_clip") # {}
    /\ UiOpsOf(2, "draw_clip") = {}
    /\ UiOpsOf(MaxCommands, "draw_clip") # {}
    /\ \A c \in 1..ui_commands : UiOpsOf(c, "draw_content") # {}

\* The operations of the last loop body, by name.
LastOps(op) == {k \in 1..Len(ui_ops) : ui_ops[k].op = op}

LastDraws == {k \in 1..Len(ui_ops) : IsDraw(ui_ops[k].op)}

\* The last loop body ran to its end: its content draw was issued.
ContentDrawn ==
    /\ ui_ops # <<>>
    /\ ui_ops[Len(ui_ops)].op = "draw_content"

\* What the content draw of the last loop body was issued with.
LastContent == ui_ops[Len(ui_ops)].arg

\* C11: a command without clip geometry produces exactly one draw, issued
\* with the stencil test disabled; a command with clip geometry produces
\* exactly two draws, the clip pass and then the content pass, the second
\* with the stencil test enabled; every content draw has blending enabled
\* and depth test and depth write disabled; a list of N commands without
\* clip geometry yields exactly N draws.  Stated for the commands whose
\* content draw is issued.
C11_DrawsPerCommand ==
    /\ ContentDrawn =>
          /\ LastContent.params.blend
          /\ ~LastContent.params.depth_test
          /\ ~LastContent.params.depth_write
          /\ ~ui_cmd.clipping_geometry =>
                /\ Cardinality(LastDraws) = 1
                /\ ~LastContent.params.stencil_test
          /\ ui_cmd.clipping_geometry =>
                /\ Cardinality(LastDraws) = 2
                /\ \E k \in LastOps("draw_clip") : k < Len(ui_ops)
                /\ LastContent.params.stencil_test
    /\ (ui_pc = "ReturnedOk"
        /\ \A k \in 1..Len(ui_log) : ui_log[k].op # "draw_clip")
       => Cardinality(UiDraws) = ui_commands

C11_Witness ==
    /\ ui_pc = "ReturnedOk"
    /\ ui_commands = MaxCommands
    /\ UiOpsOf(1, "draw_clip") = {}
    /\ ui_cmd.clipping_geometry
    /\ ContentDrawn
    /\ Cardinality(LastDraws) = 2
    /\ Cardinality(UiDraws) = ui_commands + 1

\* The last operation of a kind issued before position k of the last loop
\* body, 0 when there is none.
LastBefore(op, k) ==
    IF \E j \in LastOps(op) : j < k
    THEN CHOOSE j \in LastOps(op) :
            j < k /\ \A m \in LastOps(op) : m < k => m <= j
    ELSE 0

\* The scissor test is enabled when the loop body runs.
ScissorTestOn ==
    /\ \E k \in 1..Len(ui_log) : ui_log[k].op = "set_scissor_test_on"
    /\ ui_pc # "ReturnedOk" =>
          \A k \in 1..Len(ui_log) : ui_log[k].op # "set_scissor_test_off"

C13_ScissorBox ==
    ui_ops # <<>> =>
        LET box == ui_ops[1].arg
            clip == ui_cmd.clip_bounds
        IN /\ ui_ops[1].op = "set_scissor_box"
           /\ LastOps("set_scissor_box") = {1}
           /\ 2 * box.x <= clip.x /\ clip.x < 2 * box.x + 2
           /\ 2 * box.w - 2 < clip.w /\ clip.w <= 2 * box.w
           /\ 2 * box.h - 2 < clip.h /\ clip.h <= 2 * box.h
           /\ \E fy \in -8..8 :
                 /\ 2 * fy <= clip.y /\ clip.y < 2 * fy + 2
                 /\ box.y = ui_viewport - (fy + box.h)

C13_Witness ==
    /\ ContentDrawn
    /\ ui_cmd.clip_bounds.x % 2 = 1
    /\ ui_cmd.clip_bounds.y % 2 = 1
    /\ ui_cmd.clip_bounds.h % 2 = 1
    /\ ui_ops[1].arg.y # Floor(ui_cmd.clip_bounds.y)
    /\ 1 < Len(ui_ops)

\* C14: an error of one command never aborts the frame: after a command
\* whose draw fails or whose font atlas cannot be built, render has not
\* panicked and has not returned, and goes on with the later commands.
\* (Commands with more stops than the uniform arrays hold are left out.)
C14_ErrorsNeverAbort ==
    (ui_pc # "Idle" /\ Len(ui_cmd.brush.stops) <= RawStopsLen) =>
        ui_pc \in {"Loop", "ReturnedOk"}

\* A command texture that binds nothing: absent, not a texture resource,
\* or not resolved by the texture cache.
Unresolved(texture) ==
    \/ texture.kind = "None"
    \/ texture.kind = "Texture" /\ ~texture.is_texture
    \/ ~texture.in_cache

\* C15: a command whose texture reference is absent, is not a texture
\* resource or is not resolved by the texture cache is drawn with the
\* white dummy texture, whatever the commands before it bound, and its
\* content draw is issued exactly once; a resolved reference binds its own
\* texture.  Stated for the commands whose content draw is issued.
C15_WhiteDummyFallback ==
    ContentDrawn =>
        /\ Cardinality(LastOps("draw_content")) = 1
        /\ Unresolved(ui_cmd.texture) =>
              LastContent.diffuse_texture = WhiteDummy
        /\ ~Unresolved(ui_cmd.texture) =>
              LastContent.diffuse_texture
                 = (IF ui_cmd.texture.kind = "Font"
                    THEN TexFontAtlas ELSE TexCommand)

C15_Witness ==
    /\ ContentDrawn
    /\ ui_i > 2
    /\ ui_font_texture
    /\ ui_cmd.texture.kind = "Texture"
    /\ ~ui_cmd.texture.in_cache
    /\ LastContent.diffuse_texture = WhiteDummy

\* C16: the brush-kind selector is 0 for a solid brush, 1 for a linear
\* and 2 for a radial gradient; for a gradient of n <= 16 stops the point
\* count is n, entries 1..n of the 16-entry stop and color arrays hold the
\* stops' positions and colors in order and the entries after n are zero,
\* and the solid color is white; for a solid brush the point count is 0,
\* both arrays are all zero and the solid color is the brush color.
C16_BrushPacking ==
    ContentDrawn =>
        LET brush == ui_cmd.brush
            n == Len(brush.stops)
            d == LastContent
        IN /\ Len(d.gradient_stops) = RawStopsLen
           /\ Len(d.gradient_colors) = RawStopsLen
           /\ brush.kind = "Solid" =>
                 /\ d.brush_type = 0
                 /\ d.gradient_point_count = 0
                 /\ d.solid_color = brush.color
                 /\ \A i \in 1..RawStopsLen :
                       /\ d.gradient_stops[i] = 0
                       /\ d.gradient_colors[i] = <<0, 0, 0, 0>>
           /\ brush.kind # "Solid" =>
                 /\ brush.kind = "LinearGradient" => d.brush_type = 1
                 /\ brush.kind = "RadialGradient" => d.brush_type = 2
                 /\ n <= RawStopsLen
                 /\ d.gradient_point_count = n
                 /\ d.solid_color = ColorWhite
                 /\ \A i \in 1..n :
                       /\ d.gradient_stops[i] = brush.stops[i].stop
                       /\ \A ch \in 1..4 :
                             d.gradient_colors[i][ch]
                                = RoundDiv(brush.stops[i].color[ch] * 1000,
                                           255)
                 /\ \A i \in (n + 1)..RawStopsLen :
                       /\ d.gradient_stops[i] = 0
                       /\ d.gradient_colors[i] = <<0, 0, 0, 0>>

C16_Witness ==
    /\ ContentDrawn
    /\ ui_cmd.brush.kind = "LinearGradient"
    /\ Len(ui_cmd.brush.stops) = 2
    /\ LastContent.gradient_point_count = 2
    /\ LastContent.gradient_stops[2] # 0
    /\ LastContent.gradient_stops[3] = 0
    /\ LastContent.brush_type = 1

(***************************************************************************)
(* Properties of GpuProgram.                                               *)
(***************************************************************************)

\* The device calls of the last from_source call that name a kind.
GpuCalls(kind) ==
    {k \in 1..Len(gpu_last.calls) : gpu_last.calls[k][1] = kind}

GpuCallsOn(what) ==
    {k \in 1..Len(gpu_last.calls) : gpu_last.calls[k][2] = what}

\* C17: from_source returns a GpuProgram only when the vertex shader
\* compiles, the fragment shader compiles and the program links; a
\* compile failure returns ShaderCompilationFailed with the shader name
\* <name>_VertexShader or <name>_FragmentShader and the compiler message;
\* a link failure returns ShaderLinkingFailed with <name> and the linker
\* message; the first failing step is the one reported: after a vertex
\* compile failure no fragment shader is compiled and no program created.
C17_FromSourceErrors ==
    gpu_n > 0 =>
        LET c == gpu_last
            r == c.result
            vs_ok == c.vs.created /\ c.vs.status
            fs_ok == c.fs.created /\ c.fs.status
        IN /\ r.kind = "Ok" => (vs_ok /\ fs_ok /\ c.prog.created
                                /\ c.prog.status)
           /\ (c.vs.created /\ ~c.vs.status) =>
                 /\ r.kind = "ShaderCompilationFailed"
                 /\ r.shader_name = <<c.name, "_VertexShader">>
                 /\ r.error_message = c.vs.log
                 /\ GpuCallsOn("FRAGMENT_SHADER") = {}
                 /\ GpuCalls("create_program") = {}
           /\ (vs_ok /\ c.fs.created /\ ~c.fs.status) =>
                 /\ r.kind = "ShaderCompilationFailed"
                 /\ r.shader_name = <<c.name, "_FragmentShader">>
                 /\ r.error_message = c.fs.log
                 /\ GpuCalls("create_program") = {}
           /\ (vs_ok /\ fs_ok /\ c.prog.created /\ ~c.prog.status) =>
                 /\ r.kind = "ShaderLinkingFailed"
                 /\ r.shader_name = c.name
                 /\ r.error_message = c.prog.log

C17_Witness ==
    /\ gpu_n = MaxPrograms
    /\ gpu_last.vs.created /\ ~gpu_last.vs.status
    /\ gpu_last.fs.created /\ ~gpu_last.fs.status
    /\ ~gpu_last.prog.status
    /\ gpu_last.result.kind = "ShaderCompilationFailed"
    /\ gpu_last.result.shader_name[2] = "_VertexShader"
    /\ Len(gl_programs) > 0

\* The shader objects attached to a device program.
AttachedShaders(id) ==
    {k \in 1..Len(gl_shaders) : gl_shaders[k].program = id}

\* C19: every GpuProgram returned by from_source owns one device program
\* of its own; that program is not deleted while the GpuProgram is alive
\* and is deleted exactly once when it is dropped; the vertex and the
\* fragment shader attached to it were each deleted once by from_source
\* before it returned.
C19_ProgramDeletedOnce ==
    /\ \A id \in 1..Len(gl_programs) :
          /\ gl_programs[id].owner = "live" => gl_programs[id].deletes = 0
          /\ gl_programs[id].owner = "dropped" =>
                gl_programs[id].deletes = 1
          /\ gl_programs[id].owner # "none" =>
                /\ Cardinality(AttachedShaders(id)) = 2
                /\ \A k \in AttachedShaders(id) : gl_shaders[k].deletes = 1
                /\ {gl_shaders[k].type : k \in AttachedShaders(id)}
                      = {"VERTEX_SHADER", "FRAGMENT_SHADER"}
    /\ (gpu_n > 0 /\ gpu_last.result.kind = "Ok") =>
          /\ gpu_last.result.id = Len(gl_programs)
          /\ gl_programs[gpu_last.result.id].owner # "none"

C19_Witness ==
    /\ gpu_n = MaxPrograms
    /\ gpu_last.result.kind = "Ok"
    /\ \E a, b \in 1..Len(gl_programs) :
          /\ gl_programs[a].owner = "dropped"
          /\ gl_programs[a].deletes = 1
          /\ gl_programs[b].owner = "live"
          /\ gl_programs[b].deletes = 0

(***************************************************************************)
(* Properties of the constructors.                                         *)
(***************************************************************************)

\* The position of the first step of a constructor that the device fails,
\* 0 when none does.
FirstFailure(steps, failing) ==
    IF \E k \in 1..Len(steps) : steps[k] \in failing
    THEN CHOOSE k \in 1..Len(steps) :
            /\ steps[k] \in failing
            /\ \A j \in 1..(k - 1) : steps[j] \notin failing
    ELSE 0

\* C18: a constructor returns a renderer only when none of its textures,
\* framebuffers, geometry buffers, shader programs and uniform lookups
\* fails; when one fails it returns an error, the error of the first
\* failing step in construction order, and runs no step after it.
C18_ConstructionErrorsFatal ==
    new_result.kind # "None" =>
        LET steps == NewSteps(new_renderer)
            first == FirstFailure(steps, new_failing)
        IN /\ new_result.kind = "Ok" <=> new_failing = {}
           /\ new_result.kind = "Ok" => new_done = steps
           /\ new_result.kind = "Err" =>
                 /\ first > 0
                 /\ new_result.error = steps[first]
                 /\ new_done = SubSeq(steps, 1, first)

C18_Witness ==
    /\ new_renderer = "UiRenderer"
    /\ new_result.kind = "Err"
    /\ new_result.error = <<"shader", "uniform", "isFont">>
    /\ Cardinality(new_failing) = 2
    /\ Len(new_done) < Len(NewSteps(new_renderer)) - 1

(***************************************************************************)
(* Properties of the statistics of the passes.                             *)
(***************************************************************************)

\* C20: the statistics of a pass count every draw call the pass issued,
\* once: the HDR pass reports as many draw calls as it has issued and,
\* when render returns, exactly 9 (1 luminance, 6 downscale, 1 adaptation,
\* 1 tone map); the point-shadow and the UI pass report one draw call per
\* draw in their logs.
C20_StatisticsSum ==
    /\ hdr_stats = Len(hdr_draws)
    /\ (hdr_stage = "Idle" /\ hdr_frame > 0) =>
          /\ hdr_stats = 9
          /\ Cardinality(DrawsOf("ComputeFrameLuminance")) = 1
          /\ Cardinality(DrawsOf("DownscaleChain")) = 6
          /\ Cardinality(DrawsOf("Adapt")) = 1
          /\ Cardinality(DrawsOf("ToneMap")) = 1
    /\ shadow_stats = Cardinality(ShadowDraws)
    /\ ui_stats = Cardinality(UiDraws)

C20_Witness ==
    /\ hdr_stage = "Idle"
    /\ hdr_frame = MaxFrames
    /\ hdr_stats = 9
    /\ Len(hdr_draws) = 9

(***************************************************************************)
(* Properties of the cascades of the point shadow renderer.                *)
(***************************************************************************)

\* The order of the cube faces in a call.
FaceOrder == <<"PositiveX", "NegativeX", "PositiveY", "NegativeY",
               "PositiveZ", "NegativeZ">>

\* C21: a call with cascade c touches only cascade c's framebuffer, with
\* a viewport of the size that framebuffer was built with; the faces are
\* selected and cleared (color white, depth 1.0) in the order +X, -X, +Y,
\* -Y, +Z, -Z, each exactly once when the call has returned; every draw
\* goes into the face cleared last, so a face is cleared before anything
\* is drawn into it and its draws end before the next face is selected.
C21_CascadeFaces ==
    /\ \A k \in 1..Len(shadow_log) :
          /\ shadow_log[k].cascade = shadow_cascade
          /\ shadow_log[k].viewport = cascades[shadow_cascade]
    /\ \A k \in ShadowClears :
          /\ shadow_log[k].color = "WHITE"
          /\ shadow_log[k].depth = "1.0"
          /\ shadow_log[k].face
                = FaceOrder[Cardinality({j \in ShadowClears : j <= k})]
    /\ \A k \in ShadowDraws :
          /\ \E j \in ShadowClears : j < k
          /\ \A j \in ShadowClears :
                (j < k /\ \A m \in ShadowClears : m < k => m <= j)
                => shadow_log[j].face = shadow_log[k].face
    /\ shadow_pc = "Returned" => Cardinality(ShadowClears) = 6

C21_Witness ==
    /\ shadow_pc = "Returned"
    /\ shadow_cascade = 2
    /\ \A f \in FaceNames :
          \E k \in ShadowDraws : shadow_log[k].face = f
    /\ \A k \in 1..Len(shadow_log) : shadow_log[k].cascade = 2

(***************************************************************************)
(* Properties of FormattedText::build.                                     *)
(***************************************************************************)
LineInText(line) ==
    line.begin <= line.end /\ line.end <= Len(text_in.text)

LineWidthIsSum(line) ==
    line.width
        = SumAdvances(text_in.font, text_in.text, line.begin, line.end)

\* C22: after build, in every wrap mode and for every text, each line has
\* begin <= end <= length of the text, and its width is the sum of the
\* advances of exactly the symbols in [begin, end).
C22_LineWidths ==
    text_pc = "Built" =>
        \A k \in 1..Len(lines) :
            LineInText(lines[k]) /\ LineWidthIsSum(lines[k])

\* C24: in WrapMode::Word build never panics, whatever the text (texts of
\* white space only and texts ending in white space included) and the
\* constraint: a pending word is taken only when there is one.
C24_WordWrapNeverPanics ==
    text_in.wrap = "Word" => text_pc # "Panicked"

(***************************************************************************)
(* Properties of Model::instantiate.                                       *)
(***************************************************************************)
InstantiateReturned(kind) ==
    inst_pc = "Returned" /\ inst_result.kind = kind

\* the subtree of the returned root in the destination scene
CopiedSubTree ==
    SubTree(dest_scene.nodes, inst_result.root, Len(dest_scene.nodes))

\* C23: instantiate returns Err and leaves the destination scene as it was
\* when the resource is not a model.  When it returns Ok, the handle is
\* that of the copy of the model's root, a new node of the destination;
\* the nodes of the subtree of that copy all have the source resource and
\* every other node of the destination is as it was; every bone handle of
\* a copied mesh surface that has an entry in the old-to-new mapping is
\* replaced by the new handle; and the destination has one more animation
\* per animation of the model.
C23_Instantiate ==
    /\ (inst_pc = "Returned" /\ inst_in.kind # "Model") =>
           /\ inst_result.kind = "Err"
           /\ dest_scene = inst_in.dest
    /\ InstantiateReturned("Err") => inst_in.kind # "Model"
    /\ InstantiateReturned("Ok") =>
           /\ inst_result.root \in DOMAIN dest_scene.nodes
           /\ inst_result.root \notin DOMAIN inst_in.dest.nodes
           /\ dest_scene.nodes[inst_result.root].original
                 = inst_in.scene.root
           /\ Cardinality(CopiedSubTree)
                 = Cardinality(SubTree(inst_in.scene.nodes,
                                       inst_in.scene.root,
                                       Len(inst_in.scene.nodes)))
           /\ \A h \in DOMAIN dest_scene.nodes :
                 IF h \in CopiedSubTree
                 THEN dest_scene.nodes[h].resource = "source"
                 ELSE /\ h \in DOMAIN inst_in.dest.nodes
                      /\ dest_scene.nodes[h] = inst_in.dest.nodes[h]
           /\ \A h \in CopiedSubTree :
                 LET old == inst_in.scene.nodes[dest_scene.nodes[h].original]
                 IN  \A s \in DOMAIN old.surfaces :
                       \A b \in DOMAIN old.surfaces[s] :
                          old.surfaces[s][b] \in DOMAIN old_new_mapping =>
                             dest_scene.nodes[h].surfaces[s][b]
                                = old_new_mapping[old.surfaces[s][b]]
           /\ Len(dest_scene.animations)
                 = Len(inst_in.dest.animations)
                      + Len(inst_in.scene.animations)

C23_Witness ==
    /\ InstantiateReturned("Ok")
    /\ Len(inst_in.dest.nodes) = 2
    /\ Len(inst_in.scene.animations) = 2
    /\ Cardinality(CopiedSubTree) = 3
    /\ \E h \in CopiedSubTree :
          /\ dest_scene.nodes[h].kind = "Mesh"
          /\ dest_scene.nodes[h].surfaces = << <<5, 0>>, <<5>> >>

(***************************************************************************)
(* Properties of ColliderDesc.                                             *)
(***************************************************************************)
\* C29: a collider converted to a ColliderDesc with from_collider and back
\* with convert_to_collider keeps its interaction groups: the collision
\* groups and the solver groups of the rebuilt collider have the
\* memberships and the filter of the original, whatever their values.
C29_GroupsRoundTrip ==
    desc_pc = "Rebuilt" =>
        /\ rebuilt.collision_groups = collider.collision_groups
        /\ rebuilt.solver_groups = collider.solver_groups

(***************************************************************************)
(* Further properties of the UI renderer.                                  *)
(***************************************************************************)
\* C25: render never indexes the 16-entry arrays of gradient stops and
\* colors out of bounds: for a brush with any number of stops, more than
\* 16 included, the pass does not panic, and the point count given to the
\* shader with a content draw never exceeds 16.
C25_GradientArraysInBounds ==
    /\ Len(ui_cmd.brush.stops) > RawStopsLen => ui_pc # "Panicked"
    /\ \A k \in LastOps("draw_content") :
          ui_ops[k].arg.gradient_point_count <= RawStopsLen

\* C26: the scissor test is enabled before the first command and disabled
\* again on every return of render, after all commands were drawn as well
\* as after a failed draw in the middle of the list.
C26_ScissorTestRestored ==
    /\ ui_pc # "Idle" => ui_log[1] = UiOp(0, "set_scissor_test_on")
    /\ ui_pc \in {"ReturnedOk", "ReturnedErr"} =>
          ui_log[Len(ui_log)].op = "set_scissor_test_off"

\* C30: for clip bounds of non-negative position and size that lie inside
\* the viewport, the scissor box contains the whole clip rectangle, in x
\* and, counted from the top of the viewport, in y: no pixel the clip
\* bounds partly cover is cut off, fractional positions included.
C30_ScissorContainsClip ==
    ui_ops # <<>> =>
        LET box == ui_ops[1].arg
            clip == ui_cmd.clip_bounds
            top == ui_viewport - (box.y + box.h)
        IN  (/\ clip.x >= 0 /\ clip.y >= 0 /\ clip.w >= 0 /\ clip.h >= 0
             /\ clip.y + clip.h <= 2 * ui_viewport) =>
                /\ 2 * box.x <= clip.x
                /\ clip.x + clip.w <= 2 * (box.x + box.w)
                /\ 2 * top <= clip.y
                /\ clip.y + clip.h <= 2 * (top + box.h)

(***************************************************************************)
(* Further properties of the HDR pass and of GpuProgram.                   *)
(***************************************************************************)
\* C27: in the ToneMap stage, whenever the use_color_grading flag is true
\* the color map sampler is bound to the texture of the supplied LUT and
\* never to the stub, also when the texture cache cannot resolve the LUT.
C27_FlagImpliesLut ==
    \A k \in DrawsOf("ToneMap") :
        hdr_draws[k].use_color_grading =>
            Bound(hdr_draws[k], "colorMapSampler") = {TexColorGradingLut}

\* C28: from_source leaks no device object: no shader object is left
\* undeleted, and no program object that was not handed to a GpuProgram
\* (its creation was followed by a link failure) is left undeleted.
C28_NoLeakOnError ==
    /\ \A k \in 1..Len(gl_shaders) : gl_shaders[k].deletes >= 1
    /\ \A id \in 1..Len(gl_programs) :
          gl_programs[id].owner = "none" => gl_programs[id].deletes >= 1

====
